---- MODULE Spec2Model ----
(***************************************************************************)
(* State-machine model of the MoreUtils command-line utilities.  Every     *)
(* utility is an independent program: a behaviour runs exactly one of      *)
(* them, selected by prog in the initial state, while the variables of     *)
(* the other utilities keep their idle values.                             *)
(***************************************************************************)
EXTENDS Integers, Sequences, FiniteSets, TLC

VARIABLES
    prog,               \* the utility this behaviour runs
    \* ---- tee (src/src/tee/main.c)
    tee_pc,             \* position in main
    append_flag,        \* -a
    ignore_interrupts,  \* -i
    num_files,          \* argc - optind
    open_ok,            \* environment: whether open(2) of FILE i succeeds
    file_descriptors,   \* the malloc'ed array, filled by the open loop
    tee_i,              \* loop index i of the open / write / close loops
    buffer,             \* the bytes of the chunk last read
    bytes_read,         \* size_t bytes_read
    reads,              \* number of read(2) calls made
    input_read,         \* all bytes read(2) delivered so far
    tee_stdout,         \* all bytes written to standard output
    disk,               \* content of FILE i on disk
    written,            \* bytes this run wrote to FILE i
    close_count,        \* number of close(2) calls on FILE i's descriptor
    write_fail_seen,    \* some write(2) returned something else than its count
    tee_stderr,         \* a diagnostic was written to standard error
    tee_status,         \* exit status once the process has ended
    \* ---- stat (src/unnamed/part_001, stat.c)
    stat_pc,            \* position in main
    stat_argc,          \* number of FILE operands (argc - optind)
    dereference,        \* -L
    stat_fails,         \* environment: operands for which stat/lstat fails
    stat_i,             \* loop index over the operands
    stat_printed,       \* operands whose metadata was printed
    stat_stderr,        \* a diagnostic was written to standard error
    stat_status,        \* exit status once the process has ended
    \* ---- yes (src/unnamed/part_001, yes.c)
    yes_pc,             \* position in main
    yes_arg,            \* the argument of -l, or "absent"
    limit,              \* long long limit
    keep_running,       \* volatile sig_atomic_t keep_running
    yes_count,          \* long long count
    yes_lines,          \* copies of the output string printed
    yes_after,          \* copies printed after the signal was handled
    yes_stderr,         \* a diagnostic was written to standard error
    yes_status,         \* exit status once the process has ended
    \* ---- no (src/src/no/main.cpp)
    no_pc,              \* position in main / NoUtility::run
    no_arg,             \* the argument of -c, or "absent"
    count,              \* NoUtility::count
    no_quiet,           \* NoUtility::quiet
    running,            \* NoUtility::running
    no_i,               \* loop variable i of the counted loop
    no_lines,           \* copies of the output string printed
    no_after,           \* copies printed after the signal was handled
    output_text,        \* NoUtility::output_text
    uppercase,          \* NoUtility::uppercase (-u)
    enthusiastic,       \* NoUtility::enthusiastic (-e)
    polite,             \* NoUtility::polite (-p)
    sarcastic,          \* NoUtility::sarcastic (-s)
    formatted,          \* std::string formatted of run: the line printed
    no_stderr,          \* a diagnostic was written to standard error
    no_status,          \* exit status once the process has ended
    \* ---- ping (src/unnamed/part_001, PingUtility)
    ping_pc,            \* position in main / PingUtility::run
    ntargets,           \* targets.size()
    ping_count,         \* PingUtility::count
    continuous,         \* PingUtility::continuous
    flood_mode,         \* PingUtility::flood_mode
    ping_quiet,         \* PingUtility::quiet
    show_statistics,    \* PingUtility::show_statistics
    ping_running,       \* PingUtility::running
    sequence,           \* int sequence of run
    completed_pings,    \* int completed_pings of run
    ping_t,             \* position of the range-for over targets
    packets_sent,       \* PingUtility::packets_sent
    packets_received,   \* PingUtility::packets_received
    packets_lost,       \* PingUtility::packets_lost
    response_times,     \* PingUtility::response_times
    requests,           \* echo requests attempted: <<target, icmp_seq, seq>>
    waited,             \* the interval was waited since the last request
    stats_called,       \* printStatistics was called
    stats_printed,      \* the statistics summary was written
    ping_stderr,        \* a diagnostic was written to standard error
    ping_status,        \* exit status once the process has ended
    \* ---- whois (src/src/whois/main.cpp, WhoisClient)
    whois_pc,           \* position in main / query / performQuery
    target,             \* the QUERY operand, <<>> when it is missing
    server,             \* WhoisClient::server (-h), "" when not given
    follow_referrals,   \* WhoisClient::follow_referrals
    whois_verbose,      \* WhoisClient::verbose
    whois_quiet,        \* WhoisClient::quiet
    whois_server,       \* std::string whois_server of query
    query_server,       \* parameter whois_server of performQuery
    queries,            \* the servers performQuery was called with
    reply,              \* the chunks the connected server sends, then closes
    recv_n,             \* chunks of reply that recv delivered
    recv_failed,        \* a recv returned -1
    sent_lines,         \* what send put on the connection
    response,           \* std::string response
    first_response,     \* what the first performQuery returned
    whois_stdout,       \* the responses printed on standard output
    whois_notes,        \* verbose notes written to standard error
    whois_errmsg,       \* an error message was written to standard error
    whois_status,       \* exit status once the process has ended
    \* ---- uptime (src/src/uptime/main.cpp)
    up_pc,              \* position in main / UptimeUtility::run
    show_since,         \* bool show_since of main (-s)
    up_quiet,           \* UptimeUtility::quiet
    load_only,          \* UptimeUtility::load_only
    uptime_only,        \* UptimeUtility::uptime_only
    users_only,         \* UptimeUtility::users_only
    uptime_readable,    \* /proc/uptime can be opened
    loadavg_readable,   \* /proc/loadavg can be opened
    sysinfo_ok,         \* sysinfo() returns 0
    up_stdout,          \* lines written to standard output
    up_errmsg,          \* an error message was written to standard error
    up_status,          \* exit status once the process has ended
    \* ---- kill (src/unnamed/part_002, lines 1-210)
    kill_pc,            \* position in main
    proc,               \* /proc: pid -> first string of cmdline, owner uid
    self_pid,           \* the pid of kill itself
    signum,             \* char *signum (-s), "TERM" by default
    list_mode,          \* -l
    exact_name,         \* crit.exact_name (-n, -e)
    contains_str,       \* crit.contains_str (-o, -c)
    opt_u,              \* the optarg of -u, NullStr when -u is not given
    crit_username,      \* crit.username
    crit_uid,           \* crit.uid
    kill_sig,           \* int sig
    processes,          \* the list find_processes returns (pids)
    kill_scan,          \* entries of /proc that readdir has returned
    kill_i,             \* index i of the send loop
    attempts,           \* pids kill(2) was called with, in call order
    delivered,          \* pids for which kill(2) returned 0
    kill_errors,        \* pids named in "Error sending signal to PID"
    kill_stderr,        \* another error message was written
    kill_status,        \* exit status once the process has ended
    \* ---- tree (src/unnamed/part_003)
    tree_pc,            \* position in main / TreeUtil::run
    tree_root,          \* what DIRECTORY is: "directory", "file", "missing"
    tree_fs,            \* the entries below the root: path -> kind
    level_arg,          \* the argument of -L
    showHidden,         \* options.showHidden (-a)
    onlyDirs,           \* options.onlyDirs (-d)
    onlyFiles,          \* options.onlyFiles (-f)
    maxDepth,           \* options.maxDepth
    tree_calls,         \* the printTree calls not yet made: path, depth
    tree_printed,       \* the paths of the entries printed, in order
    dirCount,           \* TreeUtil::dirCount
    fileCount,          \* TreeUtil::fileCount
    tree_summary,       \* the numbers of the summary line, once printed
    tree_stderr,        \* an error message was written
    tree_status,        \* exit status once the process has ended
    \* ---- conf-convert (src/src/conf-convert/main.cpp)
    conf_pc,            \* position in ConfigConverter::convert
    conf_input,         \* the lines of the input, without their '\n'
    conf_readable,      \* the input file can be opened
    validate_only,      \* ConfigConverter::validate_only
    conf_content,       \* std::string content, as lines
    config_data,        \* ConfigConverter::config_data: key -> value
    conf_output,        \* the members of the JSON object written
    conf_stdout,        \* something was written to standard output
    conf_stderr,        \* an error message was written
    conf_status,        \* exit status once the process has ended
    \* ---- sleep (src/unnamed/part_002, lines 360-690)
    sleep_pc,           \* position in main / SleepUtility::sleepCombined
    sleep_tokens,       \* the value/unit pairs the argument is written from
    duration_arg,       \* std::string duration_arg, the DURATION operand
    sleep_iter,         \* std::sregex_iterator iter: where the search goes on
    total_microseconds, \* uint64_t total_microseconds, as <<s, us>>
    blocked,            \* the time sleep_for has blocked, as <<s, us>>
    sleep_stderr,       \* an error message was written
    sleep_status,       \* exit status once the process has ended
    \* ---- lower (src/src/whois/main.cpp, lines 459-671)
    lower_pc,           \* position in main / LowerConverter::processStream
    lower_input,        \* the lines of the input file
    lower_readable,     \* whether the input file can be opened
    only_first_char,    \* LowerConverter::only_first_char (-c)
    only_first_word,    \* LowerConverter::only_first_word (-w)
    preserve_whitespace, \* LowerConverter::preserve_whitespace (not -s)
    line_numbers,       \* LowerConverter::line_numbers (-n)
    line_num,           \* size_t line_num of processStream
    lower_stdout,       \* the lines written to standard output
    lower_stderr,       \* an error message was written
    lower_status,       \* exit status once the process has ended
    \* ---- ping: the echo request of pingHost (src/unnamed/part_001, 568-656)
    cksum_pc,           \* position in PingUtility::pingHost
    icmp_hdr,           \* struct icmp icmp_hdr, as its bytes in memory
    icmp_sent,          \* the bytes handed to sendto, <<>> before that
    \* ---- conf-convert to INI and back (src/src/conf-convert/main.cpp)
    rt_pc,              \* generateINI and parseINI, one after the other
    rt_data,            \* config_data of the run that writes INI
    rt_text,            \* the INI text generateINI returns
    rt_back             \* config_data of the run that reads that text

teeVars == <<tee_pc, append_flag, ignore_interrupts, num_files, open_ok,
             file_descriptors, tee_i, buffer, bytes_read, reads, input_read,
             tee_stdout, disk, written, close_count, write_fail_seen,
             tee_stderr, tee_status>>

statVars == <<stat_pc, stat_argc, dereference, stat_fails, stat_i,
              stat_printed, stat_stderr, stat_status>>

yesVars == <<yes_pc, yes_arg, limit, keep_running, yes_count, yes_lines,
             yes_after, yes_stderr, yes_status>>

\* the options of no that shape the line
noFormat == <<output_text, uppercase, enthusiastic, polite, sarcastic>>

noVars == <<no_pc, no_arg, count, no_quiet, running, no_i, no_lines,
            no_after, noFormat, formatted, no_stderr, no_status>>

pingVars == <<ping_pc, ntargets, ping_count, continuous, flood_mode,
              ping_quiet, show_statistics, ping_running, sequence,
              completed_pings, ping_t, packets_sent, packets_received,
              packets_lost, response_times, requests, waited, stats_called,
              stats_printed, ping_stderr, ping_status>>

whoisVars == <<whois_pc, target, server, follow_referrals, whois_verbose,
               whois_quiet, whois_server, query_server, queries, reply,
               recv_n, recv_failed, sent_lines, response, first_response,
               whois_stdout, whois_notes, whois_errmsg, whois_status>>

upVars == <<up_pc, show_since, up_quiet, load_only, uptime_only, users_only,
            uptime_readable, loadavg_readable, sysinfo_ok, up_stdout,
            up_errmsg, up_status>>

killVars == <<kill_pc, proc, self_pid, signum, list_mode, exact_name,
              contains_str, opt_u, crit_username, crit_uid, kill_sig,
              processes, kill_scan, kill_i, attempts, delivered, kill_errors,
              kill_stderr, kill_status>>

treeVars == <<tree_pc, tree_root, tree_fs, level_arg, showHidden, onlyDirs,
              onlyFiles, maxDepth, tree_calls, tree_printed, dirCount,
              fileCount, tree_summary, tree_stderr, tree_status>>

confVars == <<conf_pc, conf_input, conf_readable, validate_only, conf_content,
              config_data, conf_output, conf_stdout, conf_stderr,
              conf_status>>

sleepVars == <<sleep_pc, sleep_tokens, duration_arg, sleep_iter,
               total_microseconds, blocked, sleep_stderr, sleep_status>>

lowerVars == <<lower_pc, lower_input, lower_readable, only_first_char,
               only_first_word, preserve_whitespace, line_numbers, line_num,
               lower_stdout, lower_stderr, lower_status>>

cksumVars == <<cksum_pc, icmp_hdr, icmp_sent>>

rtVars == <<rt_pc, rt_data, rt_text, rt_back>>

vars == <<prog, teeVars, statVars, yesVars, noVars, pingVars, whoisVars, upVars, killVars, treeVars, confVars, sleepVars, lowerVars, cksumVars, rtVars>>

\* an exit status: <<>> while the process runs, <<n>> once it ended with n
NONE == <<>>
Exited(n) == <<n>>

\* Text is modelled as the sequence of its characters.
UpperCase == <<"A", "B", "C", "D", "E", "F", "G", "H", "I", "J", "K", "L", "M",
               "N", "O", "P", "Q", "R", "S", "T", "U", "V", "W", "X", "Y", "Z">>
LowerCase == <<"a", "b", "c", "d", "e", "f", "g", "h", "i", "j", "k", "l", "m",
               "n", "o", "p", "q", "r", "s", "t", "u", "v", "w", "x", "y", "z">>

(***************************************************************************)
(* Bounds of the model.                                                    *)
(***************************************************************************)
MaxFiles == 2           \* FILE operands of tee
MaxReads == 2           \* read(2) calls of tee before the input must end
MaxOperands == 3        \* FILE operands of stat
MaxLimit == 3           \* largest limit given to yes -l / no -c
MaxLines == 5           \* lines counted in an unbounded print loop
MaxTargets == 2         \* TARGET operands of ping
MaxCount == 2           \* largest COUNT given to ping -c
MaxPings == 4           \* echo requests of one run of ping
MaxProcs == 3           \* processes listed in /proc, kill among them
MaxLevel == 2           \* largest LEVEL given to tree -L
MaxIniLines == 3        \* lines of an input of conf-convert
MaxTokens == 2          \* value/unit pairs of a DURATION of sleep
MaxLowerLines == 2      \* lines of the input of lower
MaxPacketLen == 7       \* bytes of the echo request that are summed
MaxKeys == 2            \* keys of a map written as INI and read back

(***************************************************************************)
(* tee                                                                     *)
(***************************************************************************)
EXIT_SUCCESS == 0
SizeBits == 16          \* width used for size_t (64 in the build; any width
                        \* above that of BUFFER_SIZE behaves the same here)
SizeModulus == 2 ^ SizeBits

\* conversion of a ssize_t to size_t, as in `write(...) != bytes_read`,
\* `bytes_read = read(...)` and `bytes_read == -1`
ToSizeT(n) == n % SizeModulus

\* chunks the k-th read(2) may deliver (each at most BUFFER_SIZE bytes): the
\* bytes of the input stream are numbered, so that a lost, repeated or
\* reordered byte shows in the output
Chunks(k) == { <<10 * k + 1>>, <<10 * k + 1, 10 * k + 2>> }
\* what FILE i holds before tee runs
PrevContent == <<7>>
\* bytes of unspecified memory past the buffer, written when the count
\* handed to write(2) exceeds the buffer
Junk == <<0>>

IsPrefix(s, t) == Len(s) <= Len(t) /\ SubSeq(t, 1, Len(s)) = s

Files == 1 .. num_files

\* file descriptor open(2) returns for FILE i when it succeeds
FdOf(i) == i + 2

\* what no step of tee changes
NotTee == <<prog, statVars, yesVars, noVars, pingVars, whoisVars, upVars, killVars, treeVars, confVars, sleepVars, lowerVars, cksumVars, rtVars>>

TeeInit ==
    /\ tee_pc = "open"
    /\ append_flag \in BOOLEAN
    /\ ignore_interrupts \in BOOLEAN
    /\ num_files \in 0 .. MaxFiles
    /\ open_ok \in [1 .. num_files -> BOOLEAN]
    /\ file_descriptors = <<>>
    /\ tee_i = 1
    /\ buffer = <<>>
    /\ bytes_read = 0
    /\ reads = 0
    /\ input_read = <<>>
    /\ tee_stdout = <<>>
    /\ disk = [i \in 1 .. num_files |-> PrevContent]
    /\ written = [i \in 1 .. num_files |-> <<>>]
    /\ close_count = [i \in 1 .. num_files |-> 0]
    /\ write_fail_seen = FALSE
    /\ tee_stderr = FALSE
    /\ tee_status = NONE

TeeIdle ==
    /\ tee_pc = "idle"
    /\ append_flag = FALSE
    /\ ignore_interrupts = FALSE
    /\ num_files = 0
    /\ open_ok = <<>>
    /\ file_descriptors = <<>>
    /\ tee_i = 1
    /\ buffer = <<>>
    /\ bytes_read = 0
    /\ reads = 0
    /\ input_read = <<>>
    /\ tee_stdout = <<>>
    /\ disk = <<>>
    /\ written = <<>>
    /\ close_count = <<>>
    /\ write_fail_seen = FALSE
    /\ tee_stderr = FALSE
    /\ tee_status = NONE

\* content of a file after open(2) with the flags tee passes
OpenedContent_Kept(old) == old
OpenedContent(old) == IF append_flag THEN old ELSE <<>>

\* the open loop, one FILE per step (main.c 131-150)
TeeOpen ==
    /\ prog = "tee" /\ tee_pc = "open"
    /\ tee_i <= num_files
    /\ IF open_ok[tee_i]
         THEN /\ file_descriptors' = Append(file_descriptors, FdOf(tee_i))
              /\ disk' = [disk EXCEPT ![tee_i] = OpenedContent(@)]
              /\ tee_stderr' = tee_stderr
         ELSE /\ file_descriptors' = Append(file_descriptors, -1)
              /\ disk' = disk
              /\ tee_stderr' = TRUE
    /\ tee_i' = tee_i + 1
    /\ UNCHANGED NotTee
    /\ UNCHANGED <<tee_pc, append_flag, ignore_interrupts, num_files,
                   open_ok, buffer, bytes_read, reads, input_read, tee_stdout,
                   written, close_count, write_fail_seen, tee_status>>

\* end of the open loop: fall through to the read/write loop
TeeOpenDone ==
    /\ prog = "tee" /\ tee_pc = "open"
    /\ tee_i > num_files
    /\ tee_pc' = "read"
    /\ UNCHANGED NotTee
    /\ UNCHANGED <<append_flag, ignore_interrupts, num_files, open_ok,
                   file_descriptors, tee_i, buffer, bytes_read, reads,
                   input_read, tee_stdout, disk, written, close_count,
                   write_fail_seen, tee_stderr, tee_status>>

\* where the loop condition `(bytes_read = read(...)) > 0` leads
AfterRead(n) == IF ToSizeT(n) > 0 THEN "wstdout" ELSE "readerr"

\* read(2) delivers a chunk (main.c 159)
TeeReadChunk ==
    /\ prog = "tee" /\ tee_pc = "read"
    /\ reads < MaxReads
    /\ \E c \in Chunks(reads + 1) :
         /\ buffer' = c
         /\ bytes_read' = ToSizeT(Len(c))
         /\ input_read' = input_read \o c
         /\ tee_pc' = AfterRead(Len(c))
    /\ reads' = reads + 1
    /\ UNCHANGED NotTee
    /\ UNCHANGED <<append_flag, ignore_interrupts, num_files, open_ok,
                   file_descriptors, tee_i, tee_stdout, disk, written,
                   close_count, write_fail_seen, tee_stderr, tee_status>>

\* read(2) returns 0: end of input (main.c 159)
TeeReadEOF ==
    /\ prog = "tee" /\ tee_pc = "read"
    /\ bytes_read' = ToSizeT(0)
    /\ tee_pc' = AfterRead(0)
    /\ reads' = reads + 1
    /\ UNCHANGED NotTee
    /\ UNCHANGED <<append_flag, ignore_interrupts, num_files, open_ok,
                   file_descriptors, tee_i, buffer, input_read, tee_stdout,
                   disk, written, close_count, write_fail_seen, tee_stderr,
                   tee_status>>

\* read(2) fails and returns -1, which bytes_read stores as a size_t
TeeReadError ==
    /\ prog = "tee" /\ tee_pc = "read"
    /\ reads < MaxReads
    /\ bytes_read' = ToSizeT(-1)
    /\ tee_pc' = AfterRead(-1)
    /\ reads' = reads + 1
    /\ UNCHANGED NotTee
    /\ UNCHANGED <<append_flag, ignore_interrupts, num_files, open_ok,
                   file_descriptors, tee_i, buffer, input_read, tee_stdout,
                   disk, written, close_count, write_fail_seen, tee_stderr,
                   tee_status>>

\* the values write(fd, buffer, bytes_read) can return: -1, or the number of
\* bytes written, never more than the memory that can be read from buffer on
WriteResults == { -1 } \cup (0 .. (IF bytes_read <= Len(buffer)
                                     THEN bytes_read
                                     ELSE Len(buffer) + Len(Junk)))

\* the bytes a write(2) that returned r put into its target
BytesWritten_FirstByteOnly(r) == IF r <= 0 THEN <<>>
                                 ELSE SubSeq(buffer \o Junk, 1, 1)
BytesWritten(r) == IF r <= 0 THEN <<>>
                   ELSE SubSeq(buffer \o Junk, 1, r)

\* the test `write(...) != bytes_read`, both sides converted to size_t
WriteFailed(r) == ToSizeT(r) # bytes_read

\* write to standard output (main.c 161-164)
TeeWriteStdout ==
    /\ prog = "tee" /\ tee_pc = "wstdout"
    /\ \E r \in WriteResults :
         /\ tee_stdout' = tee_stdout \o BytesWritten(r)
         /\ write_fail_seen' = (write_fail_seen \/ r # bytes_read)
         /\ IF WriteFailed(r)
              THEN /\ tee_stderr' = TRUE
                   /\ tee_pc' = "readerr"
                   /\ tee_i' = tee_i
              ELSE /\ tee_stderr' = tee_stderr
                   /\ tee_pc' = "wfile"
                   /\ tee_i' = 1
    /\ UNCHANGED NotTee
    /\ UNCHANGED <<append_flag, ignore_interrupts, num_files, open_ok,
                   file_descriptors, buffer, bytes_read, reads, input_read,
                   disk, written, close_count, tee_status>>

\* `file_descriptors[i] = -1;  // Mark as invalid` (main.c 172)
MarkInvalid_Forgotten(fds, i) == fds
MarkInvalid(fds, i) == [fds EXCEPT ![i] = -1]

\* one iteration of the per-file write loop (main.c 167-175)
TeeWriteFile ==
    /\ prog = "tee" /\ tee_pc = "wfile"
    /\ tee_i <= num_files
    /\ IF file_descriptors[tee_i] # -1
         THEN \E r \in WriteResults :
                /\ disk' = [disk EXCEPT ![tee_i] = @ \o BytesWritten(r)]
                /\ written' = [written EXCEPT ![tee_i] = @ \o BytesWritten(r)]
                /\ write_fail_seen' = (write_fail_seen \/ r # bytes_read)
                /\ IF WriteFailed(r)
                     THEN /\ tee_stderr' = TRUE
                          /\ close_count' = [close_count EXCEPT ![tee_i] = @ + 1]
                          /\ file_descriptors' =
                                 MarkInvalid(file_descriptors, tee_i)
                     ELSE UNCHANGED <<tee_stderr, close_count, file_descriptors>>
         ELSE UNCHANGED <<disk, written, write_fail_seen, tee_stderr,
                          close_count, file_descriptors>>
    /\ tee_i' = tee_i + 1
    /\ UNCHANGED NotTee
    /\ UNCHANGED <<tee_pc, append_flag, ignore_interrupts, num_files,
                   open_ok, buffer, bytes_read, reads, input_read, tee_stdout,
                   tee_status>>

\* end of the per-file loop: back to read(2)
TeeWriteFilesDone ==
    /\ prog = "tee" /\ tee_pc = "wfile"
    /\ tee_i > num_files
    /\ tee_pc' = "read"
    /\ UNCHANGED NotTee
    /\ UNCHANGED <<append_flag, ignore_interrupts, num_files, open_ok,
                   file_descriptors, tee_i, buffer, bytes_read, reads,
                   input_read, tee_stdout, disk, written, close_count,
                   write_fail_seen, tee_stderr, tee_status>>

\* `if (bytes_read == -1) perror("Read error")` (main.c 178-181)
TeeCheckReadError ==
    /\ prog = "tee" /\ tee_pc = "readerr"
    /\ tee_stderr' = IF bytes_read = ToSizeT(-1) THEN TRUE
                                                 ELSE tee_stderr
    /\ tee_pc' = "close"
    /\ tee_i' = 1
    /\ UNCHANGED NotTee
    /\ UNCHANGED <<append_flag, ignore_interrupts, num_files, open_ok,
                   file_descriptors, buffer, bytes_read, reads, input_read,
                   tee_stdout, disk, written, close_count, write_fail_seen,
                   tee_status>>

\* `if (file_descriptors[i] != -1)` of the close loop (main.c 185)
CloseNeeded_Always(fd) == TRUE
CloseNeeded(fd) == fd # -1

\* one iteration of the close loop (main.c 183-190)
TeeClose ==
    /\ prog = "tee" /\ tee_pc = "close"
    /\ tee_i <= num_files
    /\ close_count' = IF CloseNeeded(file_descriptors[tee_i])
                        THEN [close_count EXCEPT ![tee_i] = @ + 1]
                        ELSE close_count
    /\ tee_i' = tee_i + 1
    /\ UNCHANGED NotTee
    /\ UNCHANGED <<tee_pc, append_flag, ignore_interrupts, num_files,
                   open_ok, file_descriptors, buffer, bytes_read, reads,
                   input_read, tee_stdout, disk, written, write_fail_seen,
                   tee_stderr, tee_status>>

\* the status main returns (main.c 195)
TeeExitStatus == EXIT_SUCCESS

\* `return EXIT_SUCCESS` (main.c 192-195)
TeeReturn ==
    /\ prog = "tee" /\ tee_pc = "close"
    /\ tee_i > num_files
    /\ tee_pc' = "done"
    /\ tee_status' = Exited(TeeExitStatus)
    /\ UNCHANGED NotTee
    /\ UNCHANGED <<append_flag, ignore_interrupts, num_files, open_ok,
                   file_descriptors, tee_i, buffer, bytes_read, reads,
                   input_read, tee_stdout, disk, written, close_count,
                   write_fail_seen, tee_stderr>>

\* whether SIGINT reaches signal_handler (main.c 115-120)
HandlerInstalled == ~ignore_interrupts

\* `exit(EXIT_SUCCESS)` in signal_handler (main.c 67)
HandlerStatus_Failure == 1
HandlerStatus == EXIT_SUCCESS

\* SIGINT delivered anywhere in main: signal_handler calls exit (main.c 62-68)
TeeSignal ==
    /\ prog = "tee" /\ tee_pc \in {"open", "read", "wstdout", "wfile",
                                   "readerr", "close"}
    /\ HandlerInstalled
    /\ tee_pc' = "exited"
    /\ tee_status' = Exited(HandlerStatus)
    /\ UNCHANGED NotTee
    /\ UNCHANGED <<append_flag, ignore_interrupts, num_files, open_ok,
                   file_descriptors, tee_i, buffer, bytes_read, reads,
                   input_read, tee_stdout, disk, written, close_count,
                   write_fail_seen, tee_stderr>>

TeeNext ==
    \/ TeeOpen \/ TeeOpenDone
    \/ TeeReadChunk \/ TeeReadEOF \/ TeeReadError
    \/ TeeWriteStdout \/ TeeWriteFile \/ TeeWriteFilesDone
    \/ TeeCheckReadError \/ TeeClose \/ TeeReturn
    \/ TeeSignal

(***************************************************************************)
(* stat                                                                    *)
(***************************************************************************)
NotStat == <<prog, teeVars, yesVars, noVars, pingVars, whoisVars, upVars, killVars, treeVars, confVars, sleepVars, lowerVars, cksumVars, rtVars>>

StatInit ==
    /\ stat_pc = "start"
    /\ stat_argc \in 0 .. MaxOperands
    /\ dereference \in BOOLEAN
    /\ stat_fails \in SUBSET (1 .. stat_argc)
    /\ stat_i = 1
    /\ stat_printed = {}
    /\ stat_stderr = FALSE
    /\ stat_status = NONE

StatIdle ==
    /\ stat_pc = "idle"
    /\ stat_argc = 0
    /\ dereference = FALSE
    /\ stat_fails = {}
    /\ stat_i = 1
    /\ stat_printed = {}
    /\ stat_stderr = FALSE
    /\ stat_status = NONE

\* `int exit_status = 0;`, the only assignment to it (part_001 122)
exit_status == 0

\* no operand: "missing operand", return 1 (part_001 114-119)
StatMissingOperand ==
    /\ prog = "stat" /\ stat_pc = "start"
    /\ stat_argc = 0
    /\ stat_stderr' = TRUE
    /\ stat_status' = Exited(1)
    /\ stat_pc' = "done"
    /\ UNCHANGED NotStat
    /\ UNCHANGED <<stat_argc, dereference, stat_fails, stat_i, stat_printed>>

\* enter the loop over the operands (part_001 121-123)
StatBegin ==
    /\ prog = "stat" /\ stat_pc = "start"
    /\ stat_argc > 0
    /\ stat_pc' = "loop"
    /\ UNCHANGED NotStat
    /\ UNCHANGED <<stat_argc, dereference, stat_fails, stat_i, stat_printed,
                   stat_stderr, stat_status>>

\* the result of stat(2) or lstat(2), whichever -L selects, on operand i
StatCallFails(i) == i \in stat_fails

\* print_stat on one operand (part_001 123-133, 160-180)
StatFile ==
    /\ prog = "stat" /\ stat_pc = "loop"
    /\ stat_i <= stat_argc
    /\ IF StatCallFails(stat_i)
         THEN /\ stat_stderr' = TRUE
              /\ stat_printed' = stat_printed
         ELSE /\ stat_stderr' = stat_stderr
              /\ stat_printed' = stat_printed \cup {stat_i}
    /\ stat_i' = stat_i + 1
    /\ UNCHANGED NotStat
    /\ UNCHANGED <<stat_pc, stat_argc, dereference, stat_fails, stat_status>>

\* `return exit_status;` (part_001 135)
StatReturn ==
    /\ prog = "stat" /\ stat_pc = "loop"
    /\ stat_i > stat_argc
    /\ stat_status' = Exited(exit_status)
    /\ stat_pc' = "done"
    /\ UNCHANGED NotStat
    /\ UNCHANGED <<stat_argc, dereference, stat_fails, stat_i, stat_printed,
                   stat_stderr>>

StatNext == StatMissingOperand \/ StatBegin \/ StatFile \/ StatReturn

(***************************************************************************)
(* yes                                                                     *)
(***************************************************************************)
NotYes == <<prog, teeVars, statVars, noVars, pingVars, whoisVars, upVars, killVars, treeVars, confVars, sleepVars, lowerVars, cksumVars, rtVars>>

\* arguments given to -l / -c: none, a number, or text that is no number
NoArg == [kind |-> "absent", value |-> 0]
BadArg == [kind |-> "text", value |-> 0]
NumArg(n) == [kind |-> "number", value |-> n]
LimitArgs == {NoArg, BadArg} \cup { NumArg(n) : n \in -2 .. MaxLimit }

YesInit ==
    /\ yes_pc = "parse"
    /\ yes_arg \in LimitArgs
    /\ limit = -1
    /\ keep_running = 1
    /\ yes_count = 0
    /\ yes_lines = 0
    /\ yes_after = 0
    /\ yes_stderr = FALSE
    /\ yes_status = NONE

YesIdle ==
    /\ yes_pc = "idle"
    /\ yes_arg = NoArg
    /\ limit = -1
    /\ keep_running = 1
    /\ yes_count = 0
    /\ yes_lines = 0
    /\ yes_after = 0
    /\ yes_stderr = FALSE
    /\ yes_status = NONE

\* atoll(3): 0 for text that does not start with a number
Atoll(a) == IF a.kind = "text" THEN 0 ELSE a.value

\* `if (limit < 0)` after atoll (part_001 393)
YesLimitRejected_Lax(l) == FALSE
YesLimitRejected(l) == l < 0

\* option parsing (part_001 377-403)
YesParse ==
    /\ prog = "yes" /\ yes_pc = "parse"
    /\ IF yes_arg = NoArg
         THEN /\ yes_pc' = "test"
              /\ UNCHANGED <<limit, yes_stderr, yes_status>>
         ELSE /\ limit' = Atoll(yes_arg)
              /\ IF YesLimitRejected(Atoll(yes_arg))
                   THEN /\ yes_stderr' = TRUE
                        /\ yes_status' = Exited(1)
                        /\ yes_pc' = "done"
                   ELSE /\ yes_pc' = "test"
                        /\ UNCHANGED <<yes_stderr, yes_status>>
    /\ UNCHANGED NotYes
    /\ UNCHANGED <<yes_arg, keep_running, yes_count, yes_lines, yes_after>>

\* `keep_running && (limit < 0 || count < limit)` (part_001 425)
YesLoopCondition_NoFlag == limit < 0 \/ yes_count < limit
YesLoopCondition == keep_running # 0 /\ (limit < 0 \/ yes_count < limit)

\* the loop condition is evaluated (part_001 425, 435)
YesTest ==
    /\ prog = "yes" /\ yes_pc = "test"
    /\ IF YesLoopCondition
         THEN /\ yes_pc' = "print"
              /\ yes_status' = yes_status
         ELSE /\ yes_pc' = "done"
              /\ yes_status' = Exited(0)
    /\ UNCHANGED NotYes
    /\ UNCHANGED <<yes_arg, limit, keep_running, yes_count, yes_lines,
                   yes_after, yes_stderr>>

\* a counter that stops counting at MaxLines
Counted(n) == IF n < MaxLines THEN n + 1 ELSE n

\* the loop body: one copy of the output, count++ (part_001 426-432)
YesPrint ==
    /\ prog = "yes" /\ yes_pc = "print"
    /\ yes_lines' = Counted(yes_lines)
    /\ yes_count' = Counted(yes_count)
    /\ yes_after' = IF keep_running = 0 THEN Counted(yes_after) ELSE yes_after
    /\ yes_pc' = "test"
    /\ UNCHANGED NotYes
    /\ UNCHANGED <<yes_arg, limit, keep_running, yes_stderr, yes_status>>

\* SIGINT or SIGTERM: handle_signal (part_001 337-343, 373-375)
YesSignal ==
    /\ prog = "yes" /\ yes_pc \in {"parse", "test", "print"}
    /\ keep_running = 1
    /\ keep_running' = 0
    /\ UNCHANGED NotYes
    /\ UNCHANGED <<yes_pc, yes_arg, limit, yes_count, yes_lines, yes_after,
                   yes_stderr, yes_status>>

YesRun == YesParse \/ YesTest \/ YesPrint
YesNext == YesRun \/ YesSignal

(***************************************************************************)
(* no                                                                      *)
(***************************************************************************)
NotNo == <<prog, teeVars, statVars, yesVars, pingVars, whoisVars, upVars, killVars, treeVars, confVars, sleepVars, lowerVars, cksumVars, rtVars>>

\* ::toupper in the C locale
toupper(c) ==
    IF \E i \in 1 .. Len(LowerCase) : LowerCase[i] = c
      THEN UpperCase[CHOOSE i \in 1 .. Len(LowerCase) : LowerCase[i] = c]
      ELSE c

\* the custom STRING operands tried, "no" being the default
NoTexts == { <<"n", "o">>, <<"N", "o", "p", "e">> }

\* NoUtility::formatOutput (main.cpp 47-63)
formatOutput ==
    LET result == IF polite
                    THEN <<"N", "o", ",", " ", "t", "h", "a", "n", "k", " ",
                           "y", "o", "u">>
                    ELSE IF enthusiastic THEN <<"N", "O", "!">>
                    ELSE IF sarcastic
                      THEN <<"n", "o", ".", ".", ".", " ", "o", "b", "v",
                             "i", "o", "u", "s", "l", "y">>
                      ELSE output_text
    IN  IF uppercase /\ ~enthusiastic /\ ~polite /\ ~sarcastic
          THEN [i \in 1 .. Len(result) |-> toupper(result[i])]
          ELSE result

NoInit ==
    /\ no_pc = "parse"
    /\ no_arg \in LimitArgs
    /\ count = -1
    /\ no_quiet \in BOOLEAN
    /\ output_text \in NoTexts
    /\ uppercase \in BOOLEAN
    /\ enthusiastic \in BOOLEAN
    /\ polite \in BOOLEAN
    /\ sarcastic \in BOOLEAN
    /\ formatted = <<>>
    /\ running = TRUE
    /\ no_i = 0
    /\ no_lines = 0
    /\ no_after = 0
    /\ no_stderr = FALSE
    /\ no_status = NONE

NoIdle ==
    /\ no_pc = "idle"
    /\ no_arg = NoArg
    /\ count = -1
    /\ no_quiet = FALSE
    /\ output_text = <<"n", "o">>
    /\ uppercase = FALSE
    /\ enthusiastic = FALSE
    /\ polite = FALSE
    /\ sarcastic = FALSE
    /\ formatted = <<>>
    /\ running = TRUE
    /\ no_i = 0
    /\ no_lines = 0
    /\ no_after = 0
    /\ no_stderr = FALSE
    /\ no_status = NONE

\* std::stoi throws for text that is no number (main.cpp 190-200)
StoiThrows(a) == a.kind = "text"

\* option -c (main.cpp 189-201)
NoParse ==
    /\ prog = "no" /\ no_pc = "parse"
    /\ IF no_arg = NoArg
         THEN /\ no_pc' = "run"
              /\ UNCHANGED <<count, no_stderr, no_status>>
         ELSE IF StoiThrows(no_arg) \/ no_arg.value < 0
                THEN /\ no_stderr' = TRUE
                     /\ no_status' = Exited(1)
                     /\ no_pc' = "done"
                     /\ count' = count
                ELSE /\ count' = no_arg.value
                     /\ no_pc' = "run"
                     /\ UNCHANGED <<no_stderr, no_status>>
    /\ UNCHANGED NotNo
    /\ UNCHANGED <<noFormat, formatted>>
    /\ UNCHANGED <<no_arg, no_quiet, running, no_i, no_lines, no_after>>

\* NoUtility::run up to the loops (main.cpp 65-70, 78-80, 88-90)
NoRun ==
    /\ prog = "no" /\ no_pc = "run"
    /\ IF no_quiet
         THEN /\ no_pc' = "done"
              /\ no_status' = Exited(0)
         ELSE /\ no_pc' = IF count = -1 THEN "itest" ELSE "ctest"
              /\ no_status' = no_status
    /\ no_i' = 0
    /\ formatted' = IF no_quiet THEN formatted ELSE formatOutput
    /\ UNCHANGED NotNo
    /\ UNCHANGED noFormat
    /\ UNCHANGED <<no_arg, count, no_quiet, running, no_lines, no_after,
                   no_stderr>>

\* `while (running)` (main.cpp 71)
NoInfiniteCondition == running

\* the condition of the unbounded loop is evaluated (main.cpp 71, 90)
NoInfiniteTest ==
    /\ prog = "no" /\ no_pc = "itest"
    /\ IF NoInfiniteCondition
         THEN /\ no_pc' = "iprint"
              /\ no_status' = no_status
         ELSE /\ no_pc' = "done"
              /\ no_status' = Exited(0)
    /\ UNCHANGED NotNo
    /\ UNCHANGED <<noFormat, formatted>>
    /\ UNCHANGED <<no_arg, count, no_quiet, running, no_i, no_lines,
                   no_after, no_stderr>>

\* body of the unbounded loop (main.cpp 72-76)
NoInfinitePrint ==
    /\ prog = "no" /\ no_pc = "iprint"
    /\ no_lines' = Counted(no_lines)
    /\ no_after' = IF running THEN no_after ELSE Counted(no_after)
    /\ no_pc' = "itest"
    /\ UNCHANGED NotNo
    /\ UNCHANGED <<noFormat, formatted>>
    /\ UNCHANGED <<no_arg, count, no_quiet, running, no_i, no_stderr,
                   no_status>>

\* `i < count && running` (main.cpp 80)
NoCountedCondition == no_i < count /\ running

\* the condition of the counted loop is evaluated (main.cpp 80, 90)
NoCountedTest ==
    /\ prog = "no" /\ no_pc = "ctest"
    /\ IF NoCountedCondition
         THEN /\ no_pc' = "cprint"
              /\ no_status' = no_status
         ELSE /\ no_pc' = "done"
              /\ no_status' = Exited(0)
    /\ UNCHANGED NotNo
    /\ UNCHANGED <<noFormat, formatted>>
    /\ UNCHANGED <<no_arg, count, no_quiet, running, no_i, no_lines,
                   no_after, no_stderr>>

\* body of the counted loop and ++i (main.cpp 80-86)
NoCountedPrint ==
    /\ prog = "no" /\ no_pc = "cprint"
    /\ no_lines' = Counted(no_lines)
    /\ no_after' = IF running THEN no_after ELSE Counted(no_after)
    /\ no_i' = no_i + 1
    /\ no_pc' = "ctest"
    /\ UNCHANGED NotNo
    /\ UNCHANGED <<noFormat, formatted>>
    /\ UNCHANGED <<no_arg, count, no_quiet, running, no_stderr, no_status>>

\* SIGINT or SIGTERM: signalHandler (main.cpp 94-101, 158-160)
NoSignal ==
    /\ prog = "no" /\ no_pc \in {"parse", "run", "itest", "iprint", "ctest",
                                 "cprint"}
    /\ running
    /\ running' = FALSE
    /\ UNCHANGED NotNo
    /\ UNCHANGED <<noFormat, formatted>>
    /\ UNCHANGED <<no_pc, no_arg, count, no_quiet, no_i, no_lines, no_after,
                   no_stderr, no_status>>

NoSteps == NoParse \/ NoRun \/ NoInfiniteTest \/ NoInfinitePrint
              \/ NoCountedTest \/ NoCountedPrint
NoNext == NoSteps \/ NoSignal

(***************************************************************************)
(* ping                                                                    *)
(***************************************************************************)
NotPing == <<prog, teeVars, statVars, yesVars, noVars, whoisVars, upVars, killVars, treeVars, confVars, sleepVars, lowerVars, cksumVars, rtVars>>

\* round-trip times pingHost may return, in ms: -1 for no reply
PingTimes == {-1, 0, 20}

PingInit ==
    /\ ping_pc = "start"
    /\ ntargets \in 0 .. MaxTargets
    /\ ping_count \in -1 .. MaxCount
    /\ continuous \in BOOLEAN
    /\ flood_mode \in BOOLEAN
    /\ ping_quiet \in BOOLEAN
    /\ show_statistics \in BOOLEAN
    /\ ping_running = TRUE
    /\ sequence = 1
    /\ completed_pings = 0
    /\ ping_t = 1
    /\ packets_sent = 0
    /\ packets_received = 0
    /\ packets_lost = 0
    /\ response_times = <<>>
    /\ requests = <<>>
    /\ waited = FALSE
    /\ stats_called = FALSE
    /\ stats_printed = FALSE
    /\ ping_stderr = FALSE
    /\ ping_status = NONE

PingIdle ==
    /\ ping_pc = "idle"
    /\ ntargets = 0
    /\ ping_count = 4
    /\ continuous = FALSE
    /\ flood_mode = FALSE
    /\ ping_quiet = FALSE
    /\ show_statistics = TRUE
    /\ ping_running = TRUE
    /\ sequence = 1
    /\ completed_pings = 0
    /\ ping_t = 1
    /\ packets_sent = 0
    /\ packets_received = 0
    /\ packets_lost = 0
    /\ response_times = <<>>
    /\ requests = <<>>
    /\ waited = FALSE
    /\ stats_called = FALSE
    /\ stats_printed = FALSE
    /\ ping_stderr = FALSE
    /\ ping_status = NONE

\* no TARGET: "missing target host", return 1 (part_001 953-957)
PingMissingTarget ==
    /\ prog = "ping" /\ ping_pc = "start"
    /\ ntargets = 0
    /\ ping_stderr' = TRUE
    /\ ping_status' = Exited(1)
    /\ ping_pc' = "done"
    /\ UNCHANGED NotPing
    /\ UNCHANGED <<ntargets, ping_count, continuous, flood_mode, ping_quiet,
                   show_statistics, ping_running, sequence, completed_pings,
                   ping_t, packets_sent, packets_received, packets_lost,
                   response_times, requests, waited, stats_called,
                   stats_printed>>

\* run up to its loop (part_001 752-761)
PingStart ==
    /\ prog = "ping" /\ ping_pc = "start"
    /\ ntargets > 0
    /\ sequence' = 1
    /\ completed_pings' = 0
    /\ ping_pc' = "outer"
    /\ UNCHANGED NotPing
    /\ UNCHANGED <<ntargets, ping_count, continuous, flood_mode, ping_quiet,
                   show_statistics, ping_running, ping_t, packets_sent,
                   packets_received, packets_lost, response_times, requests,
                   waited, stats_called, stats_printed, ping_stderr,
                   ping_status>>

\* `running && (continuous || completed_pings < count)` (part_001 763)
OuterCondition_OneMore ==
    ping_running /\ (continuous \/ completed_pings <= ping_count)
OuterCondition == ping_running /\ (continuous \/ completed_pings < ping_count)

\* the condition of the while loop is evaluated (part_001 763-764)
PingOuterTest ==
    /\ prog = "ping" /\ ping_pc = "outer"
    /\ ping_pc' = IF OuterCondition THEN "inner" ELSE "stats"
    /\ ping_t' = 1
    /\ UNCHANGED NotPing
    /\ UNCHANGED <<ntargets, ping_count, continuous, flood_mode, ping_quiet,
                   show_statistics, ping_running, sequence, completed_pings,
                   packets_sent, packets_received, packets_lost,
                   response_times, requests, waited, stats_called,
                   stats_printed, ping_stderr, ping_status>>

\* `if (!running) break;` (part_001 765)
InnerBreak_Never == FALSE
InnerBreak == ~ping_running

\* the range-for reaches the next target, and pingHost builds and sends the
\* echo request with icmp_seq = packets_sent (part_001 764-767, 568-585)
PingInnerTest ==
    /\ prog = "ping" /\ ping_pc = "inner"
    /\ IF ping_t > ntargets \/ InnerBreak
         THEN /\ ping_pc' = "between"
              /\ UNCHANGED <<requests, waited>>
         ELSE /\ Len(requests) < MaxPings
              /\ ping_pc' = "inflight"
              /\ requests' = Append(requests, <<ping_t, packets_sent, sequence>>)
              /\ waited' = FALSE
    /\ UNCHANGED NotPing
    /\ UNCHANGED <<ntargets, ping_count, continuous, flood_mode, ping_quiet,
                   show_statistics, ping_running, sequence, completed_pings,
                   ping_t, packets_sent, packets_received, packets_lost,
                   response_times, stats_called, stats_printed, ping_stderr,
                   ping_status>>

\* `if (quiet && time_ms > 0) return;` (part_001 659)
ResultSkipped(time_ms) == ping_quiet /\ time_ms > 0

\* `if (!continuous && !flood_mode) sleep_for(interval)` (part_001 770-772)
SleepsAfterPing == ~continuous /\ ~flood_mode

\* pingHost returns, printPingResult, the sleep and sequence++
\* (part_001 767-774, 658-696)
PingReply ==
    /\ prog = "ping" /\ ping_pc = "inflight"
    /\ \E time_ms \in PingTimes :
         IF ResultSkipped(time_ms)
           THEN UNCHANGED <<packets_sent, packets_received, packets_lost,
                            response_times>>
           ELSE /\ packets_lost' =
                       IF time_ms < 0 THEN packets_lost + 1 ELSE packets_lost
                /\ packets_received' =
                       IF time_ms < 0 THEN packets_received
                                      ELSE packets_received + 1
                /\ response_times' =
                       IF time_ms < 0 THEN response_times
                                      ELSE Append(response_times, time_ms)
                /\ packets_sent' = packets_sent + 1
    /\ waited' = (waited \/ SleepsAfterPing)
    /\ sequence' = sequence + 1
    /\ ping_t' = ping_t + 1
    /\ ping_pc' = "inner"
    /\ UNCHANGED NotPing
    /\ UNCHANGED <<ntargets, ping_count, continuous, flood_mode, ping_quiet,
                   show_statistics, ping_running, completed_pings, requests,
                   stats_called, stats_printed, ping_stderr, ping_status>>

\* `else if (continuous) sleep_for(interval)`, not reached in flood mode
\* (part_001 783-788)
SleepsAfterRound == ~flood_mode /\ continuous

\* after the range-for: completed_pings++, the break and the sleeps
\* (part_001 777-788)
PingBetween ==
    /\ prog = "ping" /\ ping_pc = "between"
    /\ completed_pings' = completed_pings + 1
    /\ IF ~continuous /\ completed_pings + 1 >= ping_count
         THEN /\ ping_pc' = "stats"
              /\ waited' = waited
         ELSE /\ ping_pc' = "outer"
              /\ waited' = (waited \/ SleepsAfterRound)
    /\ UNCHANGED NotPing
    /\ UNCHANGED <<ntargets, ping_count, continuous, flood_mode, ping_quiet,
                   show_statistics, ping_running, sequence, ping_t,
                   packets_sent, packets_received, packets_lost,
                   response_times, requests, stats_called, stats_printed,
                   ping_stderr, ping_status>>

\* `if (!show_statistics || quiet) return;` (part_001 699)
StatisticsShown == show_statistics /\ ~ping_quiet

\* printStatistics and `return 0` (part_001 791-792, 698-736)
PingStatistics ==
    /\ prog = "ping" /\ ping_pc = "stats"
    /\ stats_called' = TRUE
    /\ stats_printed' = StatisticsShown
    /\ ping_status' = Exited(0)
    /\ ping_pc' = "done"
    /\ UNCHANGED NotPing
    /\ UNCHANGED <<ntargets, ping_count, continuous, flood_mode, ping_quiet,
                   show_statistics, ping_running, sequence, completed_pings,
                   ping_t, packets_sent, packets_received, packets_lost,
                   response_times, requests, waited, ping_stderr>>

\* SIGINT or SIGTERM: signalHandler, setRunning(false) (part_001 796-803)
PingSignal ==
    /\ prog = "ping" /\ ping_pc \in {"start", "outer", "inner", "inflight",
                                     "between", "stats"}
    /\ ping_running
    /\ ping_running' = FALSE
    /\ UNCHANGED NotPing
    /\ UNCHANGED <<ping_pc, ntargets, ping_count, continuous, flood_mode,
                   ping_quiet, show_statistics, sequence, completed_pings,
                   ping_t, packets_sent, packets_received, packets_lost,
                   response_times, requests, waited, stats_called,
                   stats_printed, ping_stderr, ping_status>>

PingSteps == PingMissingTarget \/ PingStart \/ PingOuterTest \/ PingInnerTest
                \/ PingReply \/ PingBetween \/ PingStatistics
PingNext == PingSteps \/ PingSignal

(***************************************************************************)
(* whois                                                                   *)
(***************************************************************************)
NotWhois == <<prog, teeVars, statVars, yesVars, noVars, pingVars, upVars, killVars, treeVars, confVars, sleepVars, lowerVars, cksumVars, rtVars>>

Digits == {"0", "1", "2", "3", "4", "5", "6", "7", "8", "9"}
HexDigits == Digits \cup {"a", "b", "c", "d", "e", "f",
                          "A", "B", "C", "D", "E", "F"}

\* ::tolower on one character
ToLowerChar(c) ==
    IF \E i \in 1 .. Len(UpperCase) : UpperCase[i] = c
      THEN LowerCase[CHOOSE i \in 1 .. Len(UpperCase) : UpperCase[i] = c]
      ELSE c

ToLower(str) == [i \in 1 .. Len(str) |-> ToLowerChar(str[i])]

\* the pieces of str between the occurrences of sep
RECURSIVE SplitFrom(_, _, _, _)
SplitFrom(str, sep, i, piece) ==
    IF i > Len(str) THEN <<piece>>
    ELSE IF str[i] = sep
           THEN <<piece>> \o SplitFrom(str, sep, i + 1, <<>>)
           ELSE SplitFrom(str, sep, i + 1, Append(piece, str[i]))

Split(str, sep) == SplitFrom(str, sep, 1, <<>>)

\* a match of [set]{1,most}
IsRun(piece, set, most) ==
    /\ Len(piece) \in 1 .. most
    /\ \A i \in 1 .. Len(piece) : piece[i] \in set

\* ^(?:[0-9]{1,3}\.){3}[0-9]{1,3}$
MatchesIPv4(query) ==
    LET g == Split(query, ".")
    IN  Len(g) = 4 /\ \A i \in 1 .. 4 : IsRun(g[i], Digits, 3)

\* ^(?:[0-9a-fA-F]{1,4}:){7}[0-9a-fA-F]{1,4}$
MatchesIPv6(query) ==
    LET g == Split(query, ":")
    IN  Len(g) = 8 /\ \A i \in 1 .. 8 : IsRun(g[i], HexDigits, 4)

\* WhoisClient::isIPAddress (main.cpp 84-88)
isIPAddress(query) == MatchesIPv4(query) \/ MatchesIPv6(query)

\* WhoisClient::extractTLD (main.cpp 90-96)
extractTLD(domain) ==
    LET dots == { i \in 1 .. Len(domain) : domain[i] = "." }
    IN  IF dots # {} /\ (CHOOSE i \in dots : \A j \in dots : j <= i)
                           < Len(domain)
          THEN SubSeq(domain,
                      (CHOOSE i \in dots : \A j \in dots : j <= i) + 1,
                      Len(domain))
          ELSE <<>>

\* WhoisClient::tld_servers (main.cpp 42-62)
tld_servers ==
    (<<"c", "o", "m">> :> "whois.verisign-grs.com") @@
    (<<"n", "e", "t">> :> "whois.verisign-grs.com") @@
    (<<"o", "r", "g">> :> "whois.pir.org") @@
    (<<"i", "n", "f", "o">> :> "whois.afilias.net") @@
    (<<"b", "i", "z">> :> "whois.neulevel.biz") @@
    (<<"u", "s">> :> "whois.nic.us") @@
    (<<"u", "k">> :> "whois.nic.uk") @@
    (<<"d", "e">> :> "whois.denic.de") @@
    (<<"f", "r">> :> "whois.afnic.fr") @@
    (<<"j", "p">> :> "whois.jprs.jp") @@
    (<<"c", "n">> :> "whois.cnnic.cn") @@
    (<<"r", "u">> :> "whois.tcinet.ru") @@
    (<<"b", "r">> :> "whois.registro.br") @@
    (<<"a", "u">> :> "whois.auda.org.au") @@
    (<<"c", "a">> :> "whois.cira.ca") @@
    (<<"e", "d", "u">> :> "whois.educause.edu") @@
    (<<"g", "o", "v">> :> "whois.dotgov.gov") @@
    (<<"m", "i", "l">> :> "whois.nic.mil") @@
    (<<"i", "n", "t">> :> "whois.iana.org")

\* WhoisClient::selectServer (main.cpp 98-115)
selectServer(query) ==
    IF server # "" THEN server
    ELSE IF isIPAddress(query) THEN "whois.arin.net"
    ELSE IF ToLower(extractTLD(query)) \in DOMAIN tld_servers
           THEN tld_servers[ToLower(extractTLD(query))]
           ELSE "whois.internic.net"

\* The QUERY operands tried: a .com domain, an upper-case .ORG domain, a
\* name without a dot, a dotted IPv4 address, a full and a compressed IPv6
\* address.
Targets == { <<"a", ".", "c", "o", "m">>,
             <<"b", ".", "O", "R", "G">>,
             <<"h", "o", "s", "t">>,
             <<"8", ".", "8", ".", "8", ".", "8">>,
             <<"1", ":", "2", ":", "3", ":", "4", ":",
               "5", ":", "6", ":", "7", ":", "f">>,
             <<"2", "0", "0", "1", ":", ":", "1">> }

\* A response is a sequence of items: a line of text, a NUL byte, or a line
\* "<key>: <server>" that one of the referral patterns matches.
TextLine == [k |-> "text", v |-> ""]
NulByte == [k |-> "nul", v |-> ""]
Referral(key, srv) == [k |-> key, v |-> srv]

\* the keys of the patterns of extractReferralServer, in the order tried,
\* matched without regard to case (main.cpp 177-185)
ReferralPatterns == <<"ReferralServer", "Whois Server", "whois", "refer">>

\* what the servers may send before they close the connection, in the
\* pieces recv delivers
ServerReplies ==
    { <<>>,
      << <<TextLine>> >>,
      << <<TextLine>>, <<Referral("refer", "whois.registrar.example")>> >>,
      << <<TextLine, Referral("Whois Server", "whois.verisign-grs.com")>> >>,
      << <<Referral("refer", "whois.registrar.example"),
           Referral("ReferralServer", "whois.other.example")>> >>,
      << <<TextLine, NulByte, Referral("whois", "whois.registrar.example")>> >> }

RECURSIVE Flatten(_)
Flatten(chunks) == IF chunks = <<>> THEN <<>>
                   ELSE Head(chunks) \o Flatten(Tail(chunks))

\* `buffer[bytes_received] = '\0'; response += buffer;`: what is appended
\* ends before the first NUL byte of the piece (main.cpp 162-165)
CString(piece) ==
    LET nuls == { i \in 1 .. Len(piece) : piece[i] = NulByte }
    IN  IF nuls = {} THEN piece
        ELSE SubSeq(piece, 1, (CHOOSE i \in nuls : \A j \in nuls : i <= j) - 1)

\* the first match of one pattern in the response, "" without a match
FirstMatch(resp, key) ==
    LET hits == { i \in 1 .. Len(resp) : resp[i].k = key }
    IN  IF hits = {} THEN ""
        ELSE resp[CHOOSE i \in hits : \A j \in hits : i <= j].v

\* WhoisClient::extractReferralServer (main.cpp 176-193)
RECURSIVE ExtractFrom(_, _)
ExtractFrom(resp, p) ==
    IF p > Len(ReferralPatterns) THEN ""
    ELSE IF FirstMatch(resp, ReferralPatterns[p]) # ""
           THEN FirstMatch(resp, ReferralPatterns[p])
           ELSE ExtractFrom(resp, p + 1)

extractReferralServer(resp) == ExtractFrom(resp, 1)

WhoisInit ==
    /\ whois_pc = "start"
    /\ target \in Targets \cup {<<>>}
    /\ server \in {"", "whois.nic.example"}
    /\ follow_referrals \in BOOLEAN
    /\ whois_verbose \in BOOLEAN
    /\ whois_quiet \in BOOLEAN
    /\ whois_server = ""
    /\ query_server = ""
    /\ queries = <<>>
    /\ reply = <<>>
    /\ recv_n = 0
    /\ recv_failed = FALSE
    /\ sent_lines = <<>>
    /\ response = <<>>
    /\ first_response = <<>>
    /\ whois_stdout = <<>>
    /\ whois_notes = 0
    /\ whois_errmsg = FALSE
    /\ whois_status = NONE

WhoisIdle ==
    /\ whois_pc = "idle"
    /\ target = <<>>
    /\ server = ""
    /\ follow_referrals = TRUE
    /\ whois_verbose = FALSE
    /\ whois_quiet = FALSE
    /\ whois_server = ""
    /\ query_server = ""
    /\ queries = <<>>
    /\ reply = <<>>
    /\ recv_n = 0
    /\ recv_failed = FALSE
    /\ sent_lines = <<>>
    /\ response = <<>>
    /\ first_response = <<>>
    /\ whois_stdout = <<>>
    /\ whois_notes = 0
    /\ whois_errmsg = FALSE
    /\ whois_status = NONE

\* no QUERY: "missing query target", return 1 (main.cpp 450-454)
WhoisMissingTarget ==
    /\ prog = "whois" /\ whois_pc = "start"
    /\ target = <<>>
    /\ whois_errmsg' = TRUE
    /\ whois_status' = Exited(1)
    /\ whois_pc' = "done"
    /\ UNCHANGED NotWhois
    /\ UNCHANGED <<target, server, follow_referrals, whois_verbose,
                   whois_quiet, whois_server, query_server, queries, reply,
                   recv_n, recv_failed, sent_lines, response, first_response,
                   whois_stdout, whois_notes>>

\* query selects the server and calls performQuery (main.cpp 293-296)
WhoisSelect ==
    /\ prog = "whois" /\ whois_pc = "start"
    /\ target # <<>>
    /\ whois_server' = selectServer(target)
    /\ query_server' = selectServer(target)
    /\ whois_pc' = "connect"
    /\ UNCHANGED NotWhois
    /\ UNCHANGED <<target, server, follow_referrals, whois_verbose,
                   whois_quiet, queries, reply, recv_n, recv_failed,
                   sent_lines, response, first_response, whois_stdout,
                   whois_notes, whois_errmsg, whois_status>>

\* `if (verbose && !quiet)` before a note on standard error
\* (main.cpp 118, 302)
NoteShown == whois_verbose /\ ~whois_quiet

\* `if (!quiet)` before the error message of the catch block (main.cpp 327)
ErrorShown == ~whois_quiet

\* a catch block that ends with the status of success
WhoisThrow_ReturnsZero ==
    /\ whois_errmsg' = (whois_errmsg \/ ErrorShown)
    /\ whois_status' = Exited(0)
    /\ whois_pc' = "done"

\* a throw in query's try block: the catch block, return 1 (main.cpp 326-331)
WhoisThrow ==
    /\ whois_errmsg' = (whois_errmsg \/ ErrorShown)
    /\ whois_status' = Exited(1)
    /\ whois_pc' = "done"

\* performQuery from its entry to connect: socket, gethostbyname, connect,
\* each of which may fail (main.cpp 117-148)
WhoisConnect ==
    /\ prog = "whois" /\ whois_pc = "connect"
    /\ queries' = Append(queries, query_server)
    /\ whois_notes' = IF NoteShown THEN whois_notes + 1 ELSE whois_notes
    /\ response' = <<>>
    /\ recv_n' = 0
    /\ \/ /\ \E r \in ServerReplies : reply' = r
          /\ whois_pc' = "send"
          /\ UNCHANGED <<whois_errmsg, whois_status>>
       \/ /\ reply' = <<>>
          /\ WhoisThrow
    /\ UNCHANGED NotWhois
    /\ UNCHANGED <<target, server, follow_referrals, whois_verbose,
                   whois_quiet, whois_server, query_server, recv_failed,
                   sent_lines, first_response, whois_stdout>>

\* `query + "\r\n"` (main.cpp 151)
QueryString(query) == query \o <<"\r", "\n">>

\* send, which may fail (main.cpp 150-155)
WhoisSend ==
    /\ prog = "whois" /\ whois_pc = "send"
    /\ \/ /\ sent_lines' = Append(sent_lines, QueryString(target))
          /\ whois_pc' = "recv"
          /\ UNCHANGED <<whois_errmsg, whois_status>>
       \/ /\ sent_lines' = sent_lines
          /\ WhoisThrow
    /\ UNCHANGED NotWhois
    /\ UNCHANGED <<target, server, follow_referrals, whois_verbose,
                   whois_quiet, whois_server, query_server, queries, reply,
                   recv_n, recv_failed, response, first_response,
                   whois_stdout, whois_notes>>

\* what follows the receive loop: close, the test for an empty response,
\* and the return to query (main.cpp 167-173, 296, 305-306)
AfterReceive ==
    IF response = <<>>
      THEN /\ WhoisThrow
           /\ UNCHANGED <<first_response, whois_server>>
      ELSE /\ UNCHANGED <<whois_errmsg, whois_status>>
           /\ IF Len(queries) = 1
                THEN /\ whois_pc' = "referral"
                     /\ first_response' = response
                     /\ whois_server' = whois_server
                ELSE /\ whois_pc' = "output"
                     /\ first_response' = first_response
                     /\ whois_server' = query_server

\* recv delivers the next piece the server sent (main.cpp 162-165)
WhoisRecvData ==
    /\ prog = "whois" /\ whois_pc = "recv"
    /\ recv_n < Len(reply)
    /\ response' = response \o CString(reply[recv_n + 1])
    /\ recv_n' = recv_n + 1
    /\ UNCHANGED NotWhois
    /\ UNCHANGED <<whois_pc, target, server, follow_referrals, whois_verbose,
                   whois_quiet, whois_server, query_server, queries, reply,
                   recv_failed, sent_lines, first_response, whois_stdout,
                   whois_notes, whois_errmsg, whois_status>>

\* recv returns 0, the server closed the connection: the loop ends
\* (main.cpp 162, 167-173)
WhoisRecvEOF ==
    /\ prog = "whois" /\ whois_pc = "recv"
    /\ recv_n = Len(reply)
    /\ AfterReceive
    /\ UNCHANGED NotWhois
    /\ UNCHANGED <<target, server, follow_referrals, whois_verbose,
                   whois_quiet, query_server, queries, reply, recv_n,
                   recv_failed, sent_lines, response, whois_stdout,
                   whois_notes>>

\* recv returns -1 (the receive timeout, a reset): the loop ends as well
\* (main.cpp 162, 167-173)
WhoisRecvError ==
    /\ prog = "whois" /\ whois_pc = "recv"
    /\ recv_failed' = TRUE
    /\ AfterReceive
    /\ UNCHANGED NotWhois
    /\ UNCHANGED <<target, server, follow_referrals, whois_verbose,
                   whois_quiet, query_server, queries, reply, recv_n,
                   sent_lines, response, whois_stdout, whois_notes>>

\* the test without the comparison with the server just queried
FollowsReferral_SameServer(referral_server) ==
    follow_referrals /\ ~isIPAddress(target) /\ referral_server # ""

\* the test that decides on the second query (main.cpp 299-301)
FollowsReferral(referral_server) ==
    /\ follow_referrals /\ ~isIPAddress(target)
    /\ referral_server # "" /\ referral_server # whois_server

\* query after the first performQuery returned (main.cpp 298-308)
WhoisReferral ==
    /\ prog = "whois" /\ whois_pc = "referral"
    /\ IF FollowsReferral(extractReferralServer(response))
         THEN /\ query_server' = extractReferralServer(response)
              /\ whois_notes' = IF NoteShown THEN whois_notes + 1
                                             ELSE whois_notes
              /\ whois_pc' = "connect"
         ELSE /\ whois_pc' = "output"
              /\ UNCHANGED <<query_server, whois_notes>>
    /\ UNCHANGED NotWhois
    /\ UNCHANGED <<target, server, follow_referrals, whois_verbose,
                   whois_quiet, whois_server, queries, reply, recv_n,
                   recv_failed, sent_lines, response, first_response,
                   whois_stdout, whois_errmsg, whois_status>>

\* the result is printed, return 0 (main.cpp 310-324)
WhoisOutput ==
    /\ prog = "whois" /\ whois_pc = "output"
    /\ whois_stdout' = Append(whois_stdout, response)
    /\ whois_status' = Exited(0)
    /\ whois_pc' = "done"
    /\ UNCHANGED NotWhois
    /\ UNCHANGED <<target, server, follow_referrals, whois_verbose,
                   whois_quiet, whois_server, query_server, queries, reply,
                   recv_n, recv_failed, sent_lines, response, first_response,
                   whois_notes, whois_errmsg>>

WhoisNext == WhoisMissingTarget \/ WhoisSelect \/ WhoisConnect \/ WhoisSend
                \/ WhoisRecvData \/ WhoisRecvEOF \/ WhoisRecvError
                \/ WhoisReferral \/ WhoisOutput

(***************************************************************************)
(* uptime                                                                  *)
(***************************************************************************)
NotUptime == <<prog, teeVars, statVars, yesVars, noVars, pingVars, whoisVars, killVars, treeVars, confVars, sleepVars, lowerVars, cksumVars, rtVars>>

UptimeInit ==
    /\ up_pc = "start"
    /\ show_since \in BOOLEAN
    /\ up_quiet \in BOOLEAN
    /\ load_only \in BOOLEAN
    /\ uptime_only \in BOOLEAN
    /\ users_only \in BOOLEAN
    /\ uptime_readable \in BOOLEAN
    /\ loadavg_readable \in BOOLEAN
    /\ sysinfo_ok \in BOOLEAN
    /\ up_stdout = 0
    /\ up_errmsg = FALSE
    /\ up_status = NONE

UptimeIdle ==
    /\ up_pc = "idle"
    /\ show_since = FALSE
    /\ up_quiet = FALSE
    /\ load_only = FALSE
    /\ uptime_only = FALSE
    /\ users_only = FALSE
    /\ uptime_readable = TRUE
    /\ loadavg_readable = TRUE
    /\ sysinfo_ok = TRUE
    /\ up_stdout = 0
    /\ up_errmsg = FALSE
    /\ up_status = NONE

\* -s: printSince prints the boot time, or its own error message when
\* sysinfo fails, and main returns 0 (main.cpp 243-260, 319-322)
UptimeSince ==
    /\ prog = "uptime" /\ up_pc = "start"
    /\ show_since
    /\ IF sysinfo_ok
         THEN up_stdout' = up_stdout + 1 /\ up_errmsg' = up_errmsg
         ELSE up_stdout' = up_stdout /\ up_errmsg' = TRUE
    /\ up_status' = Exited(0)
    /\ up_pc' = "done"
    /\ UNCHANGED NotUptime
    /\ UNCHANGED <<show_since, up_quiet, load_only, uptime_only, users_only,
                   uptime_readable, loadavg_readable, sysinfo_ok>>

\* `if (!quiet)` before the error message of run's catch block
\* (main.cpp 193)
UptimeErrorShown == ~up_quiet

\* a throw in run's try block: the catch block, return 1 (main.cpp 192-197)
UptimeThrow ==
    /\ up_errmsg' = (up_errmsg \/ UptimeErrorShown)
    /\ up_status' = Exited(1)
    /\ up_pc' = "done"
    /\ up_stdout' = up_stdout

\* UptimeUtility::getUptime, called first by run (main.cpp 45-54, 142)
UptimeGetUptime ==
    /\ prog = "uptime" /\ up_pc = "start"
    /\ ~show_since
    /\ IF uptime_readable
         THEN /\ up_pc' = "loadavg"
              /\ UNCHANGED <<up_stdout, up_errmsg, up_status>>
         ELSE UptimeThrow
    /\ UNCHANGED NotUptime
    /\ UNCHANGED <<show_since, up_quiet, load_only, uptime_only, users_only,
                   uptime_readable, loadavg_readable, sysinfo_ok>>

\* UptimeUtility::getLoadAverage, called next (main.cpp 56-65, 143)
UptimeGetLoadAverage ==
    /\ prog = "uptime" /\ up_pc = "loadavg"
    /\ IF loadavg_readable
         THEN /\ up_pc' = "output"
              /\ UNCHANGED <<up_stdout, up_errmsg, up_status>>
         ELSE UptimeThrow
    /\ UNCHANGED NotUptime
    /\ UNCHANGED <<show_since, up_quiet, load_only, uptime_only, users_only,
                   uptime_readable, loadavg_readable, sysinfo_ok>>

\* the number of lines run prints: one per selected mode, or the one line
\* of the default format (main.cpp 147-188)
OutputLines ==
    IF uptime_only \/ load_only \/ users_only
      THEN (IF uptime_only THEN 1 ELSE 0) + (IF load_only THEN 1 ELSE 0)
             + (IF users_only THEN 1 ELSE 0)
      ELSE 1

\* run prints and returns 0; quiet is not consulted (main.cpp 146-190)
UptimeOutput ==
    /\ prog = "uptime" /\ up_pc = "output"
    /\ up_stdout' = up_stdout + OutputLines
    /\ up_status' = Exited(0)
    /\ up_pc' = "done"
    /\ UNCHANGED NotUptime
    /\ UNCHANGED <<show_since, up_quiet, load_only, uptime_only, users_only,
                   uptime_readable, loadavg_readable, sysinfo_ok, up_errmsg>>

UptimeNext == UptimeSince \/ UptimeGetUptime \/ UptimeGetLoadAverage
                 \/ UptimeOutput

(***************************************************************************)
(* kill                                                                    *)
(***************************************************************************)
NotKill == <<prog, teeVars, statVars, yesVars, noVars, pingVars, whoisVars, upVars, treeVars, confVars, sleepVars, lowerVars, cksumVars, rtVars>>

\* a char * that is NULL, and one that points to a string
NullStr == [set |-> FALSE, str |-> <<>>]
Str(s) == [set |-> TRUE, str |-> s]

\* #define MAX_SIGNALS 32
MAX_SIGNALS == 32

\* const char *signals[MAX_SIGNALS]: 31 names; the last element has no
\* initialiser and is a null pointer (part_002 35-40)
signals ==
    <<
       <<"H", "U", "P">>, <<"I", "N", "T">>, <<"Q", "U", "I", "T">>,
       <<"I", "L", "L">>, <<"T", "R", "A", "P">>, <<"A", "B", "R", "T">>,
       <<"B", "U", "S">>, <<"F", "P", "E">>, <<"K", "I", "L", "L">>,
       <<"U", "S", "R", "1">>, <<"S", "E", "G", "V">>, <<"U", "S", "R", "2">>,
       <<"P", "I", "P", "E">>, <<"A", "L", "R", "M">>, <<"T", "E", "R", "M">>,
       <<"S", "T", "K", "F", "L", "T">>, <<"C", "H", "L", "D">>, <<"C", "O", "N", "T">>,
       <<"S", "T", "O", "P">>, <<"T", "S", "T", "P">>, <<"T", "T", "I", "N">>,
       <<"T", "T", "O", "U">>, <<"U", "R", "G">>, <<"X", "C", "P", "U">>,
       <<"X", "F", "S", "Z">>, <<"V", "T", "A", "L", "R", "M">>, <<"P", "R", "O", "F">>,
       <<"W", "I", "N", "C", "H">>, <<"P", "O", "L", "L">>, <<"P", "W", "R">>,
       <<"S", "Y", "S">>
    >>

\* strcasecmp(a, b) == 0
EqualNoCase(a, b) == ToLower(a) = ToLower(b)

\* the value strtol reads from an unsigned decimal string
RECURSIVE DecimalValue(_)
DecimalValue(s) ==
    IF s = <<>> THEN 0
    ELSE 10 * DecimalValue(SubSeq(s, 1, Len(s) - 1))
           + (CHOOSE d \in 0 .. 9 : ToString(d) = s[Len(s)])

\* strtol(sig, &end, 10) followed by
\* `*end == '\0' && num > 0 && num <= MAX_SIGNALS` (part_002 57-59)
NumericSignal(s) ==
    IF s # <<>> /\ (\A i \in 1 .. Len(s) : s[i] \in Digits)
         /\ DecimalValue(s) > 0 /\ DecimalValue(s) <= MAX_SIGNALS
      THEN DecimalValue(s)
      ELSE -1

\* the test of parse_signal's loop for the element i of signals
\* (part_002 51-52)
SignalNameMatches(s, i) ==
    \/ EqualNoCase(s, signals[i])
    \/ s # <<>> /\ s[1] = "-" /\ EqualNoCase(Tail(s), signals[i])

\* parse_signal (part_002 49-60).  A name among the 31 is found before the
\* loop reaches the null pointer; otherwise strcasecmp is called with a
\* null pointer, which is undefined: the process crashes, or the call
\* compares unequal and the numeric form is tried.
parse_signal(s) ==
    LET hits == { i \in 1 .. Len(signals) : SignalNameMatches(s, i) }
    IN  IF hits # {}
          THEN { [crash |-> FALSE,
                  value |-> CHOOSE i \in hits : \A j \in hits : i <= j] }
          ELSE { [crash |-> TRUE, value |-> 0],
                 [crash |-> FALSE, value |-> NumericSignal(s)] }

\* the password database read by getpwnam (part_002 62-67)
Passwd == (<<"a", "l">> :> 1000) @@ (<<"r", "t">> :> 0)

\* get_uid (part_002 62-67): -1 for an unknown user
KnownUser(username) == username \in DOMAIN Passwd

\* the -s arguments tried: two names, one with a dash, two numbers
SignalArgs == { <<"T", "E", "R", "M">>, <<"c", "o", "n", "t">>,
                <<"-", "S", "T", "O", "P">>, <<"9">>, <<"4", "0">> }

\* the processes other than kill itself: a shell of user 1000, a shell of
\* root started by its path, a kernel thread (empty cmdline)
ProcKinds == { [argv0 |-> <<"s", "h">>, owner |-> 1000],
               [argv0 |-> <<"/", "b", "/", "s", "h">>, owner |-> 0],
               [argv0 |-> <<>>, owner |-> 0] }

\* kill itself, run by user 1000
SelfKind == [argv0 |-> <<"k", "i", "l", "l">>, owner |-> 1000]

Pids == 1 .. MaxProcs

KillInit ==
    /\ kill_pc = "parse"
    /\ self_pid \in Pids
    /\ proc \in { f \in [Pids -> ProcKinds \cup {SelfKind}] :
                    \A p \in Pids : (f[p] = SelfKind) <=> (p = self_pid) }
    /\ signum \in SignalArgs
    /\ list_mode \in BOOLEAN
    /\ exact_name \in {NullStr, Str(<<"s", "h">>)}
    /\ contains_str \in {NullStr, Str(<<"b", "/">>)}
    /\ opt_u \in {NullStr, Str(<<"a", "l">>), Str(<<"r", "t">>),
                  Str(<<"n", "o">>)}
    /\ list_mode => (exact_name = NullStr /\ contains_str = NullStr
                        /\ opt_u = NullStr /\ signum = <<"T", "E", "R", "M">>)
    /\ crit_username = NullStr
    /\ crit_uid = 0
    /\ kill_sig = 0
    /\ processes = <<>>
    /\ kill_scan = 0
    /\ kill_i = 0
    /\ attempts = <<>>
    /\ delivered = <<>>
    /\ kill_errors = <<>>
    /\ kill_stderr = FALSE
    /\ kill_status = NONE

KillIdle ==
    /\ kill_pc = "idle"
    /\ self_pid = 1
    /\ proc = [p \in Pids |-> SelfKind]
    /\ signum = <<"T", "E", "R", "M">>
    /\ list_mode = FALSE
    /\ exact_name = NullStr
    /\ contains_str = NullStr
    /\ opt_u = NullStr
    /\ crit_username = NullStr
    /\ crit_uid = 0
    /\ kill_sig = 0
    /\ processes = <<>>
    /\ kill_scan = 0
    /\ kill_i = 0
    /\ attempts = <<>>
    /\ delivered = <<>>
    /\ kill_errors = <<>>
    /\ kill_stderr = FALSE
    /\ kill_status = NONE

\* what the process leaves behind when it ends at once with status n
KillExit(n, message) ==
    /\ kill_status' = Exited(n)
    /\ kill_stderr' = message
    /\ kill_pc' = "done"

\* the exit status the shell reports for a process ended by signal n
BySignal(n) == 128 + n

\* SIGSEGV
SIGSEGV == 11

\* the option loop: -u looks the user up and stores the uid in crit.uid;
\* crit.username is assigned nowhere (part_002 149-165)
KillOptions ==
    /\ prog = "kill" /\ kill_pc = "parse"
    /\ opt_u.set /\ ~KnownUser(opt_u.str)
    /\ KillExit(1, TRUE)
    /\ UNCHANGED NotKill
    /\ UNCHANGED <<proc, self_pid, signum, list_mode, exact_name,
                   contains_str, opt_u, crit_username, crit_uid, kill_sig,
                   processes, kill_scan, kill_i, attempts, delivered,
                   kill_errors>>

\* main from the option loop to the call of find_processes
\* (part_002 142-181)
KillParse ==
    /\ prog = "kill" /\ kill_pc = "parse"
    /\ opt_u.set => KnownUser(opt_u.str)
    /\ crit_uid' = IF opt_u.set THEN Passwd[opt_u.str] ELSE crit_uid
    /\ crit_username' = crit_username
    /\ IF list_mode
         THEN /\ KillExit(0, FALSE)
              /\ kill_sig' = kill_sig
         ELSE \E r \in parse_signal(signum) :
                IF r.crash
                  THEN /\ kill_status' = Exited(BySignal(SIGSEGV))
                       /\ kill_pc' = "killed"
                       /\ UNCHANGED <<kill_sig, kill_stderr>>
                ELSE IF r.value <= 0
                  THEN /\ KillExit(1, TRUE)
                       /\ kill_sig' = r.value
                  ELSE /\ kill_sig' = r.value
                       /\ kill_pc' = "scan"
                       /\ UNCHANGED <<kill_stderr, kill_status>>
    /\ UNCHANGED NotKill
    /\ UNCHANGED <<proc, self_pid, signum, list_mode, exact_name,
                   contains_str, opt_u, processes, kill_scan, kill_i,
                   attempts, delivered, kill_errors>>

\* strrchr(first, '/') and the name after it (part_002 87-88)
Basename(path) ==
    LET slashes == { i \in 1 .. Len(path) : path[i] = "/" }
    IN  IF slashes = {} THEN path
        ELSE SubSeq(path,
                    (CHOOSE i \in slashes : \A j \in slashes : j <= i) + 1,
                    Len(path))

\* strstr(haystack, needle) != NULL
Contains(haystack, needle) ==
    \E i \in 1 .. Len(haystack) - Len(needle) + 1 :
        SubSeq(haystack, i, i + Len(needle) - 1) = needle

\* get_process_info for a process whose files can be read (part_002 80-115):
\* the outcomes it can have.  cmdline is read as a C string, that is, up to
\* the end of argv[0].  For an empty cmdline strtok returns a null pointer
\* and strrchr is called with it, which is undefined: the process crashes
\* or the entry is passed over.
get_process_info(pid) ==
    LET cmdline == proc[pid].argv0
    IN  IF exact_name.set /\ cmdline = <<>> THEN {"crash", "skip"}
        ELSE IF exact_name.set /\ Basename(cmdline) # exact_name.str
          THEN {"skip"}
        ELSE IF contains_str.set /\ ~Contains(cmdline, contains_str.str)
          THEN {"skip"}
        ELSE IF crit_username.set /\ proc[pid].owner # crit_uid
          THEN {"skip"}
        ELSE {"match"}

\* one turn of the readdir loop of find_processes: the next pid of /proc
\* (part_002 117-140)
KillScan ==
    /\ prog = "kill" /\ kill_pc = "scan"
    /\ kill_scan < MaxProcs
    /\ kill_scan' = kill_scan + 1
    /\ \E outcome \in get_process_info(kill_scan + 1) :
         /\ processes' = IF outcome = "match"
                           THEN Append(processes, kill_scan + 1)
                           ELSE processes
         /\ IF outcome = "crash"
              THEN /\ kill_status' = Exited(BySignal(SIGSEGV))
                   /\ kill_pc' = "killed"
              ELSE UNCHANGED <<kill_pc, kill_status>>
    /\ UNCHANGED NotKill
    /\ UNCHANGED <<proc, self_pid, signum, list_mode, exact_name,
                   contains_str, opt_u, crit_username, crit_uid, kill_sig,
                   kill_i, attempts, delivered, kill_errors, kill_stderr>>

\* the process has ended since readdir returned its entry: a read_proc_file
\* fails and get_process_info returns 0 (part_002 69-78, 82, 108)
KillScanGone ==
    /\ prog = "kill" /\ kill_pc = "scan"
    /\ kill_scan < MaxProcs
    /\ kill_scan + 1 # self_pid
    /\ kill_scan' = kill_scan + 1
    /\ UNCHANGED NotKill
    /\ UNCHANGED <<kill_pc, proc, self_pid, signum, list_mode, exact_name,
                   contains_str, opt_u, crit_username, crit_uid, kill_sig,
                   processes, kill_i, attempts, delivered, kill_errors,
                   kill_stderr, kill_status>>

\* crit.newest and crit.oldest: set by `Criteria crit = {0}` and by nothing
\* else (part_002 143)
crit_newest == 0
crit_oldest == 0

\* the time-based filtering keeps one process; which one is decided by the
\* start times, which no run gets to compare (part_002 187-198)
TimeFiltered(list) ==
    IF crit_newest # 0 \/ crit_oldest # 0 THEN SubSeq(list, 1, 1) ELSE list

\* readdir returns NULL: find_processes returns, main filters
\* (part_002 136-139, 179-198)
KillScanDone ==
    /\ prog = "kill" /\ kill_pc = "scan"
    /\ kill_scan = MaxProcs
    /\ processes' = TimeFiltered(processes)
    /\ kill_i' = 0
    /\ kill_pc' = "send"
    /\ UNCHANGED NotKill
    /\ UNCHANGED <<proc, self_pid, signum, list_mode, exact_name,
                   contains_str, opt_u, crit_username, crit_uid, kill_sig,
                   kill_scan, attempts, delivered, kill_errors, kill_stderr,
                   kill_status>>

\* what a signal does to a process that, like kill, installs no handler:
\* CHLD, CONT, URG and WINCH are ignored, STOP, TSTP, TTIN and TTOU stop the
\* process, every other signal ends it
DefaultAction(n) ==
    IF n \in {17, 18, 23, 28} THEN "ignore"
    ELSE IF n \in {19, 20, 21, 22} THEN "stop"
    ELSE "terminate"

\* one turn of the send loop for a process other than kill itself:
\* kill(2) succeeds or fails, a failure is reported (part_002 201-206)
KillSend ==
    /\ prog = "kill" /\ kill_pc = "send"
    /\ kill_i < Len(processes)
    /\ processes[kill_i + 1] # self_pid
    /\ attempts' = Append(attempts, processes[kill_i + 1])
    /\ \/ /\ delivered' = Append(delivered, processes[kill_i + 1])
          /\ kill_errors' = kill_errors
       \/ /\ kill_errors' = Append(kill_errors, processes[kill_i + 1])
          /\ delivered' = delivered
    /\ kill_i' = kill_i + 1
    /\ UNCHANGED NotKill
    /\ UNCHANGED <<kill_pc, proc, self_pid, signum, list_mode, exact_name,
                   contains_str, opt_u, crit_username, crit_uid, kill_sig,
                   processes, kill_scan, kill_stderr, kill_status>>

\* the turn of the send loop for kill's own pid, which find_processes does
\* not leave out: the signal is delivered before kill(2) returns
\* (part_002 201-202)
KillSendSelf ==
    /\ prog = "kill" /\ kill_pc = "send"
    /\ kill_i < Len(processes)
    /\ processes[kill_i + 1] = self_pid
    /\ attempts' = Append(attempts, self_pid)
    /\ delivered' = Append(delivered, self_pid)
    /\ kill_i' = kill_i + 1
    /\ IF DefaultAction(kill_sig) = "ignore"
         THEN UNCHANGED <<kill_pc, kill_status>>
         ELSE IF DefaultAction(kill_sig) = "stop"
           THEN kill_pc' = "stopped" /\ kill_status' = kill_status
           ELSE kill_pc' = "killed"
                  /\ kill_status' = Exited(BySignal(kill_sig))
    /\ UNCHANGED NotKill
    /\ UNCHANGED <<proc, self_pid, signum, list_mode, exact_name,
                   contains_str, opt_u, crit_username, crit_uid, kill_sig,
                   processes, kill_scan, kill_errors, kill_stderr>>

\* the end of the send loop: free, return 0 (part_002 208-209)
KillReturn ==
    /\ prog = "kill" /\ kill_pc = "send"
    /\ kill_i >= Len(processes)
    /\ kill_status' = Exited(0)
    /\ kill_pc' = "done"
    /\ UNCHANGED NotKill
    /\ UNCHANGED <<proc, self_pid, signum, list_mode, exact_name,
                   contains_str, opt_u, crit_username, crit_uid, kill_sig,
                   processes, kill_scan, kill_i, attempts, delivered,
                   kill_errors, kill_stderr>>

KillNext == KillOptions \/ KillParse \/ KillScan \/ KillScanGone
               \/ KillScanDone \/ KillSend \/ KillSendSelf \/ KillReturn

(***************************************************************************)
(* tree                                                                    *)
(***************************************************************************)
NotTree == <<prog, teeVars, statVars, yesVars, noVars, pingVars, whoisVars, upVars, killVars, confVars, sleepVars, lowerVars, cksumVars, rtVars>>

\* The entries that may exist below the root, each named by its path from
\* the root; the names are numbers in the order std::sort gives them.
TreePaths == { <<1>>, <<2>>, <<1, 1>>, <<1, 2>>, <<1, 1, 1>> }

\* what an entry can be: a directory, a file, a file whose name starts
\* with a dot
EntryKinds == { [dir |-> TRUE, hidden |-> FALSE],
                [dir |-> FALSE, hidden |-> FALSE],
                [dir |-> FALSE, hidden |-> TRUE] }

\* the arguments of -L tried
LevelArgs == {NoArg, BadArg} \cup { NumArg(n) : n \in -2 .. MaxLevel }

TreeInit ==
    /\ tree_pc = "parse"
    /\ tree_root \in {"directory", "file", "missing"}
    /\ tree_fs \in [TreePaths -> EntryKinds]
    /\ level_arg \in LevelArgs
    /\ showHidden \in BOOLEAN
    /\ onlyDirs \in BOOLEAN
    /\ onlyFiles \in BOOLEAN
    /\ tree_root # "directory" =>
          /\ tree_fs = [p \in TreePaths |-> [dir |-> FALSE, hidden |-> FALSE]]
          /\ level_arg = NoArg /\ ~showHidden /\ ~onlyDirs /\ ~onlyFiles
    /\ maxDepth = -1
    /\ tree_calls = <<>>
    /\ tree_printed = <<>>
    /\ dirCount = 0
    /\ fileCount = 0
    /\ tree_summary = <<>>
    /\ tree_stderr = FALSE
    /\ tree_status = NONE

TreeIdle ==
    /\ tree_pc = "idle"
    /\ tree_root = "directory"
    /\ tree_fs = [p \in TreePaths |-> [dir |-> FALSE, hidden |-> FALSE]]
    /\ level_arg = NoArg
    /\ showHidden = FALSE
    /\ onlyDirs = FALSE
    /\ onlyFiles = FALSE
    /\ maxDepth = -1
    /\ tree_calls = <<>>
    /\ tree_printed = <<>>
    /\ dirCount = 0
    /\ fileCount = 0
    /\ tree_summary = <<>>
    /\ tree_stderr = FALSE
    /\ tree_status = NONE

\* the entries of fs::directory_iterator(path) after std::sort; <<>> is the
\* root (part_003 171-176, 223-228)
RECURSIVE SortedPaths(_)
SortedPaths(S) ==
    IF S = {} THEN <<>>
    ELSE LET first == CHOOSE p \in S :
                         \A q \in S : p[Len(p)] <= q[Len(q)]
         IN  <<first>> \o SortedPaths(S \ {first})

DirectoryEntries(path) ==
    SortedPaths({ q \in TreePaths :
                    Len(q) = Len(path) + 1 /\ SubSeq(q, 1, Len(path)) = path })

\* the printTree calls of one loop over paths, in call order
\* (part_003 178-185, 230-232)
CallsFor(path, depth) ==
    [k \in 1 .. Len(DirectoryEntries(path)) |->
        [path |-> DirectoryEntries(path)[k], depth |-> depth]]

\* main: the option loop; std::stoi throws for a -L argument that is no
\* number, return 1 (part_003 264-299)
TreeParse ==
    /\ prog = "tree" /\ tree_pc = "parse"
    /\ IF level_arg = BadArg
         THEN /\ tree_stderr' = TRUE
              /\ tree_status' = Exited(1)
              /\ tree_pc' = "done"
              /\ maxDepth' = maxDepth
         ELSE /\ maxDepth' = IF level_arg = NoArg THEN maxDepth
                                                  ELSE level_arg.value
              /\ tree_pc' = "run"
              /\ UNCHANGED <<tree_stderr, tree_status>>
    /\ UNCHANGED NotTree
    /\ UNCHANGED <<tree_root, tree_fs, level_arg, showHidden, onlyDirs,
                   onlyFiles, tree_calls, tree_printed, dirCount, fileCount,
                   tree_summary>>

\* TreeUtil::run up to its loop over the entries of the root; for a root
\* that is missing or no directory an error is printed and main returns 0
\* (part_003 212-232, 238-240, 301-302)
TreeRun ==
    /\ prog = "tree" /\ tree_pc = "run"
    /\ dirCount' = 0
    /\ fileCount' = 0
    /\ IF tree_root = "directory"
         THEN /\ tree_calls' = CallsFor(<<>>, 0)
              /\ tree_pc' = "walk"
              /\ UNCHANGED <<tree_stderr, tree_status>>
         ELSE /\ tree_stderr' = TRUE
              /\ tree_status' = Exited(0)
              /\ tree_pc' = "done"
              /\ tree_calls' = tree_calls
    /\ UNCHANGED NotTree
    /\ UNCHANGED <<tree_root, tree_fs, level_arg, showHidden, onlyDirs,
                   onlyFiles, maxDepth, tree_printed, tree_summary>>

\* `options.maxDepth != -1 && depth > options.maxDepth` (part_003 105)
TooDeep(depth) == maxDepth # -1 /\ depth > maxDepth

\* the skip of hidden entries (part_003 112)
HiddenSkipped(entry) == ~showHidden /\ entry.hidden

\* the file/directory filter without its onlyDirs half
FilterSkipped_FilesPass(isDirectory) == onlyFiles /\ isDirectory

\* the file/directory filter (part_003 119)
FilterSkipped(isDirectory) ==
    (onlyDirs /\ ~isDirectory) \/ (onlyFiles /\ isDirectory)

\* printTree returns before it prints (part_003 105-126; no -P pattern is
\* given, so matchesPattern is true)
Skipped(call) ==
    \/ TooDeep(call.depth)
    \/ HiddenSkipped(tree_fs[call.path])
    \/ FilterSkipped(tree_fs[call.path].dir)

\* one call of printTree: the early returns, or the entry is printed and
\* counted and, for a directory, its entries are the next calls, one level
\* deeper (part_003 104-193)
TreePrintTree ==
    /\ prog = "tree" /\ tree_pc = "walk"
    /\ tree_calls # <<>>
    /\ LET call == Head(tree_calls)
       IN  IF Skipped(call)
             THEN /\ tree_calls' = Tail(tree_calls)
                  /\ UNCHANGED <<tree_printed, dirCount, fileCount>>
             ELSE /\ tree_printed' = Append(tree_printed, call.path)
                  /\ dirCount' = IF tree_fs[call.path].dir THEN dirCount + 1
                                                         ELSE dirCount
                  /\ fileCount' = IF tree_fs[call.path].dir
                                    THEN fileCount ELSE fileCount + 1
                  /\ tree_calls' =
                       IF tree_fs[call.path].dir
                         THEN CallsFor(call.path, call.depth + 1)
                                \o Tail(tree_calls)
                         ELSE Tail(tree_calls)
    /\ UNCHANGED NotTree
    /\ UNCHANGED <<tree_pc, tree_root, tree_fs, level_arg, showHidden,
                   onlyDirs, onlyFiles, maxDepth, tree_summary, tree_stderr,
                   tree_status>>

\* the summary line, return 0 (part_003 234-236, 301-302)
TreeSummary ==
    /\ prog = "tree" /\ tree_pc = "walk"
    /\ tree_calls = <<>>
    /\ tree_summary' = <<dirCount, fileCount>>
    /\ tree_status' = Exited(0)
    /\ tree_pc' = "done"
    /\ UNCHANGED NotTree
    /\ UNCHANGED <<tree_root, tree_fs, level_arg, showHidden, onlyDirs,
                   onlyFiles, maxDepth, tree_calls, tree_printed, dirCount,
                   fileCount, tree_stderr>>

TreeNext == TreeParse \/ TreeRun \/ TreePrintTree \/ TreeSummary

(***************************************************************************)
(* conf-convert                                                            *)
(***************************************************************************)
NotConf == <<prog, teeVars, statVars, yesVars, noVars, pingVars, whoisVars, upVars, killVars, treeVars, sleepVars, lowerVars, cksumVars, rtVars>>

\* the characters of the inputs, in the order of their codes
Alphabet == <<"\t", "\r", " ", "\"", "#", "-", ".", "1", "2", ";", "=", "[",
              "\\", "]", "a", "b", "e", "r", "s", "t", "u", "x", "y">>

CharRank(c) == CHOOSE i \in 1 .. Len(Alphabet) : Alphabet[i] = c

\* operator< of std::string, the order of std::map (main.cpp 45)
RECURSIVE StringLess(_, _)
StringLess(s, t) ==
    IF t = <<>> THEN FALSE
    ELSE IF s = <<>> THEN TRUE
    ELSE IF Head(s) # Head(t) THEN CharRank(Head(s)) < CharRank(Head(t))
    ELSE StringLess(Tail(s), Tail(t))

\* the keys of a std::map in iteration order
RECURSIVE MapOrder(_)
MapOrder(keys) ==
    IF keys = {} THEN <<>>
    ELSE LET least == CHOOSE k \in keys :
                         \A other \in keys \ {k} : StringLess(k, other)
         IN  <<least>> \o MapOrder(keys \ {least})

\* \s of the regular expressions
RegexSpace == {" ", "\t", "\r", "\n"}

\* . of the regular expressions: any character but a line terminator
RegexDot(c) == c \notin {"\n", "\r"}

\* the line after the leading \s*
AfterSpace(line) ==
    LET rest == { i \in 1 .. Len(line) : line[i] \notin RegexSpace }
    IN  IF rest = {} THEN <<>>
        ELSE SubSeq(line, CHOOSE i \in rest : \A j \in rest : i <= j,
                    Len(line))

\* regex_match(line, comment_pattern), "^\\s*[;#](.*)$" (main.cpp 186, 191)
MatchesComment(line) ==
    LET rest == AfterSpace(line)
    IN  /\ rest # <<>> /\ rest[1] \in {";", "#"}
        /\ \A i \in 2 .. Len(rest) : RegexDot(rest[i])

\* the position of the first c in str, 0 when there is none
FirstIndex(str, c) ==
    LET hits == { i \in 1 .. Len(str) : str[i] = c }
    IN  IF hits = {} THEN 0 ELSE CHOOSE i \in hits : \A j \in hits : i <= j

\* regex_match(line, section_pattern), "^\\s*\\[([^\\]]+)\\]\\s*$"
\* (main.cpp 184, 198)
MatchesSection(line) ==
    LET rest == AfterSpace(line)
        close == FirstIndex(rest, "]")
    IN  /\ rest # <<>> /\ rest[1] = "["
        /\ close > 2
        /\ \A i \in close + 1 .. Len(rest) : rest[i] \in RegexSpace

\* match[1] of section_pattern (main.cpp 199)
SectionName(line) ==
    SubSeq(AfterSpace(line), 2, FirstIndex(AfterSpace(line), "]") - 1)

\* regex_match(line, keyvalue_pattern), "^\\s*([^=]+)=(.*)$"
\* (main.cpp 185, 203)
MatchesKeyValue(line) ==
    /\ FirstIndex(line, "=") > 1
    /\ \A i \in FirstIndex(line, "=") + 1 .. Len(line) : RegexDot(line[i])

\* erase(0, find_first_not_of(" \t")); erase(find_last_not_of(" \t") + 1)
\* (main.cpp 208-211)
Trim(str) ==
    LET keep == { i \in 1 .. Len(str) : str[i] \notin {" ", "\t"} }
    IN  IF keep = {} THEN <<>>
        ELSE SubSeq(str, CHOOSE i \in keep : \A j \in keep : i <= j,
                         CHOOSE i \in keep : \A j \in keep : j <= i)

\* the key and the value of a key/value line, trimmed (main.cpp 204-211);
\* the leading \s* of the pattern takes what Trim does not
LineKey(line) ==
    Trim(IF AfterSpace(SubSeq(line, 1, FirstIndex(line, "=") - 1)) = <<>>
           THEN <<>>
           ELSE AfterSpace(SubSeq(line, 1, FirstIndex(line, "=") - 1)))

LineValue(line) == Trim(SubSeq(line, FirstIndex(line, "=") + 1, Len(line)))

\* the getline loop of parseINI from line i on (main.cpp 188-216)
RECURSIVE ParseLines(_, _, _, _)
ParseLines(lines, i, current_section, data) ==
    IF i > Len(lines) THEN data
    ELSE IF MatchesComment(lines[i])
      THEN ParseLines(lines, i + 1, current_section, data)
    ELSE IF MatchesSection(lines[i])
      THEN ParseLines(lines, i + 1, SectionName(lines[i]), data)
    ELSE IF MatchesKeyValue(lines[i])
      THEN LET full_key == IF current_section = <<>>
                             THEN LineKey(lines[i])
                             ELSE current_section \o <<".">>
                                    \o LineKey(lines[i])
           IN  ParseLines(lines, i + 1, current_section,
                          [k \in DOMAIN data \cup {full_key} |->
                              IF k = full_key THEN LineValue(lines[i])
                                              ELSE data[k]])
    ELSE ParseLines(lines, i + 1, current_section, data)

\* the empty config_data
EmptyMap == [k \in {} |-> <<>>]

\* ConfigConverter::parseINI (main.cpp 179-222): what it leaves in
\* config_data
parseINI(lines) == ParseLines(lines, 1, <<>>, EmptyMap)

\* str is a run of one or more digits
IsDigits(str) == str # <<>> /\ \A i \in 1 .. Len(str) : str[i] \in Digits

\* ConfigConverter::isNumber, "^-?\\d+(?:\\.\\d+)?$" (main.cpp 275-279)
isNumber(str) ==
    LET unsigned == IF str # <<>> /\ str[1] = "-" THEN Tail(str) ELSE str
        dot == FirstIndex(unsigned, ".")
    IN  IF dot = 0 THEN IsDigits(unsigned)
        ELSE /\ IsDigits(SubSeq(unsigned, 1, dot - 1))
             /\ IsDigits(SubSeq(unsigned, dot + 1, Len(unsigned)))

\* ConfigConverter::isBoolean (main.cpp 281-283)
isBoolean(str) ==
    str \in { <<"t", "r", "u", "e">>, <<"f", "a", "l", "s", "e">> }

\* ConfigConverter::escapeJsonString (main.cpp 261-273)
RECURSIVE escapeJsonString(_)
escapeJsonString(str) ==
    IF str = <<>> THEN <<>>
    ELSE (IF Head(str) = "\"" THEN <<"\\", "\"">>
          ELSE IF Head(str) = "\\" THEN <<"\\", "\\">>
          ELSE IF Head(str) = "\n" THEN <<"\\", "n">>
          ELSE IF Head(str) = "\r" THEN <<"\\", "r">>
          ELSE IF Head(str) = "\t" THEN <<"\\", "t">>
          ELSE <<Head(str)>>) \o escapeJsonString(Tail(str))

\* the member generateJSON writes for one pair: the key between quotes,
\* the value bare when it is a number or a boolean, between quotes
\* otherwise (main.cpp 294-303, 313-322)
JsonMember(key, value) ==
    [key |-> escapeJsonString(key),
     type |-> IF isNumber(value) THEN "number"
              ELSE IF isBoolean(value) THEN "boolean" ELSE "string",
     text |-> IF isNumber(value) \/ isBoolean(value)
                THEN value ELSE escapeJsonString(value)]

\* ConfigConverter::generateJSON (main.cpp 286-330): the members of the
\* object, in the order written
generateJSON(data) ==
    [i \in 1 .. Cardinality(DOMAIN data) |->
        JsonMember(MapOrder(DOMAIN data)[i], data[MapOrder(DOMAIN data)[i]])]

\* the lines INI inputs are made of
IniLines == { <<"a", "=", "x">>, <<"b", "=", "y">>,
              <<"a", "=", "1">>, <<"b", "=", "t", "r", "u", "e">>,
              <<"a", "=", "x", "\r">>, <<"b", "=", "y", "\r">>,
              <<"[", "s", "]">>, <<";", " ", "a", "=", "x">>,
              <<" ", "b", " ", "=", " ", "-", "1", ".", "2", " ">>,
              <<"s", ".", "a", "=", "\"", "x">> }

\* the inputs: up to MaxIniLines lines
IniInputs == UNION { [1 .. n -> IniLines] : n \in 0 .. MaxIniLines }

ConfInit ==
    /\ conf_pc = "read"
    /\ conf_input \in IniInputs
    /\ conf_readable \in BOOLEAN
    /\ validate_only \in BOOLEAN
    /\ conf_content = <<>>
    /\ config_data = EmptyMap
    /\ conf_output = <<>>
    /\ conf_stdout = FALSE
    /\ conf_stderr = FALSE
    /\ conf_status = NONE

ConfIdle ==
    /\ conf_pc = "idle"
    /\ conf_input = <<>>
    /\ conf_readable = TRUE
    /\ validate_only = FALSE
    /\ conf_content = <<>>
    /\ config_data = EmptyMap
    /\ conf_output = <<>>
    /\ conf_stdout = FALSE
    /\ conf_stderr = FALSE
    /\ conf_status = NONE

\* convert reads the input; an input file that cannot be opened: return 1
\* (main.cpp 481-498)
ConfRead ==
    /\ prog = "conf-convert" /\ conf_pc = "read"
    /\ IF conf_readable
         THEN /\ conf_content' = conf_input
              /\ conf_pc' = "parse"
              /\ UNCHANGED <<conf_stderr, conf_status>>
         ELSE /\ conf_stderr' = TRUE
              /\ conf_status' = Exited(1)
              /\ conf_pc' = "done"
              /\ conf_content' = conf_content
    /\ UNCHANGED NotConf
    /\ UNCHANGED <<conf_input, conf_readable, validate_only, config_data,
                   conf_output, conf_stdout>>

\* -f ini: parseINI; with --validate the run ends here (main.cpp 506-530)
ConfParse ==
    /\ prog = "conf-convert" /\ conf_pc = "parse"
    /\ config_data' = parseINI(conf_content)
    /\ IF validate_only
         THEN /\ conf_stdout' = TRUE
              /\ conf_status' = Exited(0)
              /\ conf_pc' = "done"
         ELSE /\ conf_pc' = "generate"
              /\ UNCHANGED <<conf_stdout, conf_status>>
    /\ UNCHANGED NotConf
    /\ UNCHANGED <<conf_input, conf_readable, validate_only, conf_content,
                   conf_output, conf_stderr>>

\* -t json: generateJSON, the output is written, return 0
\* (main.cpp 532-566; no key filter is given)
ConfGenerate ==
    /\ prog = "conf-convert" /\ conf_pc = "generate"
    /\ conf_output' = generateJSON(config_data)
    /\ conf_stdout' = TRUE
    /\ conf_status' = Exited(0)
    /\ conf_pc' = "done"
    /\ UNCHANGED NotConf
    /\ UNCHANGED <<conf_input, conf_readable, validate_only, conf_content,
                   config_data, conf_stderr>>

ConfNext == ConfRead \/ ConfParse \/ ConfGenerate

(***************************************************************************)
(* sleep                                                                   *)
(***************************************************************************)
NotSleep == <<prog, teeVars, statVars, yesVars, noVars, pingVars, whoisVars, upVars, killVars, treeVars, confVars, lowerVars, cksumVars, rtVars>>

\* A count of microseconds is held as <<seconds, microseconds>>, the second
\* component below one million, so that hours and days stay within the
\* integers of the model checker.
Micros(s, us) == <<s + us \div 1000000, us % 1000000>>

TimeAdd(a, b) == Micros(a[1] + b[1], a[2] + b[2])

TimeLeq(a, b) == a[1] < b[1] \/ (a[1] = b[1] /\ a[2] <= b[2])

\* [a-zA-Z]
Letters == { LowerCase[i] : i \in 1 .. Len(LowerCase) }
              \cup { UpperCase[i] : i \in 1 .. Len(UpperCase) }

\* the position after the longest run of characters of set that starts at p
RECURSIVE RunEnd(_, _, _)
RunEnd(str, p, set) ==
    IF p <= Len(str) /\ str[p] \in set THEN RunEnd(str, p + 1, set) ELSE p

\* the position after \d+(?:\.\d+)? matched at p, p itself without a digit
NumberEnd(str, p) ==
    LET e == RunEnd(str, p, Digits)
    IN  IF e > p /\ e <= Len(str) /\ str[e] = "."
             /\ RunEnd(str, e + 1, Digits) > e + 1
             /\ RunEnd(str, RunEnd(str, e + 1, Digits), Letters)
                  > RunEnd(str, e + 1, Digits)
          THEN RunEnd(str, e + 1, Digits)
          ELSE e

\* the pattern (\d+(?:\.\d+)?)([a-zA-Z]+) matches at p (part_002 439)
MatchesAt(str, p) ==
    /\ NumberEnd(str, p) > p
    /\ RunEnd(str, NumberEnd(str, p), Letters) > NumberEnd(str, p)

\* the next match of the sregex_iterator at or after from: its start, 0
\* when there is none (part_002 440-441, 453)
NextMatch(str, from) ==
    LET starts == { p \in from .. Len(str) : MatchesAt(str, p) }
    IN  IF starts = {} THEN 0
        ELSE CHOOSE p \in starts : \A q \in starts : p <= q

\* std::stod of a digit string with at most one digit after the point, in
\* tenths; -1 when stod throws because no number starts the string
StodTenths(str) ==
    LET e == RunEnd(str, 1, Digits)
    IN  IF e = 1 THEN -1
        ELSE 10 * DecimalValue(SubSeq(str, 1, e - 1))
               + (IF e < Len(str) /\ str[e] = "." /\ str[e + 1] \in Digits
                    THEN DecimalValue(<<str[e + 1]>>) ELSE 0)

\* SleepUtility::parseUnit (part_002 476-497) for the short unit names: the
\* unit of a unit string, "" when it throws
parseUnit(unit_str) ==
    LET unit == ToLower(unit_str)
    IN  IF unit = <<"n", "s">> THEN "NANOSECOND"
        ELSE IF unit = <<"u", "s">> THEN "MICROSECOND"
        ELSE IF unit = <<"m", "s">> THEN "MILLISECOND"
        ELSE IF unit = <<"s">> THEN "SECOND"
        ELSE IF unit = <<"m">> THEN "MINUTE"
        ELSE IF unit = <<"h">> THEN "HOUR"
        ELSE IF unit = <<"d">> THEN "DAY"
        ELSE ""

\* the seconds in a unit of a second or more
SecondsIn(unit) ==
    IF unit = "SECOND" THEN 1
    ELSE IF unit = "MINUTE" THEN 60
    ELSE IF unit = "HOUR" THEN 3600
    ELSE 86400

\* SleepUtility::convertToMicroseconds (part_002 499-517) for a value given
\* in tenths: static_cast<uint64_t> drops what is left of a microsecond
convertToMicroseconds(tenths, unit) ==
    IF unit = "NANOSECOND" THEN Micros(0, tenths \div 10000)
    ELSE IF unit = "MICROSECOND" THEN Micros(0, tenths \div 10)
    ELSE IF unit = "MILLISECOND" THEN Micros(0, tenths * 100)
    ELSE Micros((tenths * SecondsIn(unit)) \div 10,
                ((tenths * SecondsIn(unit)) % 10) * 100000)

\* the values and the unit strings the arguments are written from
SleepValues == { <<"2">>, <<"1", "5">>, <<"3", "0">>,
                 <<"1", "5", "0", "0">>, <<"0", ".", "5">> }

SleepUnits == { <<"n", "s">>, <<"u", "s">>, <<"m", "s">>, <<"s">>, <<"m">>,
                <<"H">>, <<"d">>, <<"x">> }

SleepTokens == [value : SleepValues, unit : SleepUnits \cup {<<>>}]

\* the text of a sequence of tokens
RECURSIVE TokenText(_)
TokenText(tokens) ==
    IF tokens = <<>> THEN <<>>
    ELSE Head(tokens).value \o Head(tokens).unit \o TokenText(Tail(tokens))

\* the DURATION operands tried: a bare number, one to MaxTokens value/unit
\* pairs, a word without a digit
SleepInit ==
    /\ sleep_pc = "start"
    /\ sleep_tokens \in UNION { [1 .. n -> SleepTokens] : n \in 1 .. MaxTokens }
    /\ \/ Len(sleep_tokens) = 1 /\ sleep_tokens[1].unit = <<>>
       \/ \A k \in 1 .. Len(sleep_tokens) : sleep_tokens[k].unit # <<>>
    /\ duration_arg \in {TokenText(sleep_tokens), <<"x">>}
    /\ duration_arg = <<"x">> => sleep_tokens = <<[value |-> <<"2">>,
                                                   unit |-> <<>>]>>
    /\ sleep_iter = 0
    /\ total_microseconds = <<0, 0>>
    /\ blocked = <<0, 0>>
    /\ sleep_stderr = FALSE
    /\ sleep_status = NONE

SleepIdle ==
    /\ sleep_pc = "idle"
    /\ sleep_tokens = <<>>
    /\ duration_arg = <<>>
    /\ sleep_iter = 0
    /\ total_microseconds = <<0, 0>>
    /\ blocked = <<0, 0>>
    /\ sleep_stderr = FALSE
    /\ sleep_status = NONE

\* an exception reaches the catch block of main: message, return 1
\* (part_002 686-689)
SleepThrow ==
    /\ sleep_stderr' = TRUE
    /\ sleep_status' = Exited(1)
    /\ sleep_pc' = "done"

\* sleepCombined up to the loop: the first search; without a match the
\* argument is read by std::stod as seconds (part_002 438-451)
SleepStart ==
    /\ prog = "sleep" /\ sleep_pc = "start"
    /\ sleep_iter' = NextMatch(duration_arg, 1)
    /\ IF NextMatch(duration_arg, 1) # 0
         THEN /\ sleep_pc' = "loop"
              /\ UNCHANGED <<total_microseconds, sleep_stderr, sleep_status>>
         ELSE IF StodTenths(duration_arg) < 0
           THEN SleepThrow /\ UNCHANGED total_microseconds
           ELSE /\ total_microseconds' =
                     convertToMicroseconds(StodTenths(duration_arg), "SECOND")
                /\ sleep_pc' = "sleep"
                /\ UNCHANGED <<sleep_stderr, sleep_status>>
    /\ UNCHANGED NotSleep
    /\ UNCHANGED <<sleep_tokens, duration_arg, blocked>>

\* one turn of the loop over the matches (part_002 455-466)
SleepToken ==
    /\ prog = "sleep" /\ sleep_pc = "loop"
    /\ sleep_iter # 0
    /\ LET value_end == NumberEnd(duration_arg, sleep_iter)
           unit_end == RunEnd(duration_arg, value_end, Letters)
           value == StodTenths(SubSeq(duration_arg, sleep_iter, value_end - 1))
           unit == parseUnit(SubSeq(duration_arg, value_end, unit_end - 1))
       IN  IF unit = ""
             THEN SleepThrow /\ UNCHANGED <<total_microseconds, sleep_iter>>
             ELSE /\ total_microseconds' =
                       TimeAdd(total_microseconds,
                               convertToMicroseconds(value, unit))
                  /\ sleep_iter' = NextMatch(duration_arg, unit_end)
                  /\ UNCHANGED <<sleep_pc, sleep_stderr, sleep_status>>
    /\ UNCHANGED NotSleep
    /\ UNCHANGED <<sleep_tokens, duration_arg, blocked>>

\* the loop is over (part_002 455, 468-472)
SleepLoopEnd ==
    /\ prog = "sleep" /\ sleep_pc = "loop"
    /\ sleep_iter = 0
    /\ sleep_pc' = "sleep"
    /\ UNCHANGED NotSleep
    /\ UNCHANGED <<sleep_tokens, duration_arg, sleep_iter, total_microseconds,
                   blocked, sleep_stderr, sleep_status>>

\* std::this_thread::sleep_for returns when at least the requested time
\* has passed, the scheduler may add to it; return 0
\* (part_002 448, 472, 684)
SleepBlock ==
    /\ prog = "sleep" /\ sleep_pc = "sleep"
    /\ \E late \in {<<0, 0>>, <<0, 70>>} :
         blocked' = TimeAdd(total_microseconds, late)
    /\ sleep_status' = Exited(0)
    /\ sleep_pc' = "done"
    /\ UNCHANGED NotSleep
    /\ UNCHANGED <<sleep_tokens, duration_arg, sleep_iter, total_microseconds,
                   sleep_stderr>>

SleepNext == SleepStart \/ SleepToken \/ SleepLoopEnd \/ SleepBlock

(***************************************************************************)
(* lower                                                                   *)
(***************************************************************************)
NotLower == <<prog, teeVars, statVars, yesVars, noVars, pingVars, whoisVars, upVars, killVars, treeVars, confVars, sleepVars, cksumVars, rtVars>>

\* std::isspace in the locale of the converter, and the characters -s
\* strips; the vertical tab, which no input of the model holds, is left out
LowerSpace == {" ", "\t", "\n", "\r", "\f"}

\* the branch only_first_word of convertLine (main.cpp 516-525): the loop
\* over the characters from position i on
RECURSIVE FirstWordLoop(_, _, _)
FirstWordLoop(result, i, found_word) ==
    IF i > Len(result) THEN result
    ELSE IF result[i] \in Letters /\ ~found_word
      THEN FirstWordLoop([result EXCEPT ![i] = ToLowerChar(@)], i + 1, TRUE)
      ELSE IF found_word /\ result[i] \in LowerSpace
        THEN result
        ELSE FirstWordLoop(result, i + 1, found_word)

\* the three ways of converting a line (main.cpp 510-529)
Converted(line, first_char, first_word) ==
    IF first_char
      THEN IF line # <<>> THEN [line EXCEPT ![1] = ToLowerChar(@)] ELSE line
      ELSE IF first_word THEN FirstWordLoop(line, 1, FALSE)
      ELSE ToLower(line)

\* erase up to find_first_not_of, then from find_last_not_of + 1 on
\* (main.cpp 531-535); a line of white space only keeps all but its last
\* character, erase(0, npos) emptying it first
Stripped(str) ==
    LET keep == { i \in 1 .. Len(str) : str[i] \notin LowerSpace }
    IN  IF keep = {} THEN <<>>
        ELSE SubSeq(str, CHOOSE i \in keep : \A j \in keep : i <= j,
                         CHOOSE i \in keep : \A j \in keep : j <= i)

\* std::to_string of a size_t
RECURSIVE to_string(_)
to_string(n) ==
    LET digit == <<"0", "1", "2", "3", "4", "5", "6", "7", "8", "9">>[(n % 10) + 1]
    IN  IF n < 10 THEN <<digit>> ELSE to_string(n \div 10) \o <<digit>>

\* LowerConverter::convertLine (main.cpp 509-542)
convertLine(line, num) ==
    LET result == Converted(line, only_first_char, only_first_word)
        kept == IF preserve_whitespace THEN result ELSE Stripped(result)
    IN  IF line_numbers THEN to_string(num) \o <<":", " ">> \o kept ELSE kept

\* the lines the input files are written from
LowerLines == { <<>>,
                <<"A", "B", " ", "C", "d">>,
                <<" ", "A", "b", " ">>,
                <<"1", "A", " ", "B">>,
                <<"a", "B">>,
                <<"x", "-", "Y">> }

LowerInit ==
    /\ lower_pc = "open"
    /\ lower_input \in UNION { [1 .. n -> LowerLines] : n \in 1 .. MaxLowerLines }
    /\ lower_readable \in BOOLEAN
    /\ only_first_char \in BOOLEAN
    /\ only_first_word \in BOOLEAN
    /\ preserve_whitespace \in BOOLEAN
    /\ line_numbers \in BOOLEAN
    /\ line_num = 1
    /\ lower_stdout = <<>>
    /\ lower_stderr = FALSE
    /\ lower_status = NONE

LowerIdle ==
    /\ lower_pc = "idle"
    /\ lower_input = <<>>
    /\ lower_readable = TRUE
    /\ only_first_char = FALSE
    /\ only_first_word = FALSE
    /\ preserve_whitespace = TRUE
    /\ line_numbers = FALSE
    /\ line_num = 1
    /\ lower_stdout = <<>>
    /\ lower_stderr = FALSE
    /\ lower_status = NONE

\* std::ifstream file(filename); "cannot open", return 1 (main.cpp 650-656)
LowerOpen ==
    /\ prog = "lower" /\ lower_pc = "open"
    /\ IF lower_readable
         THEN /\ lower_pc' = "stream"
              /\ UNCHANGED <<lower_stderr, lower_status>>
         ELSE /\ lower_stderr' = TRUE
              /\ lower_status' = Exited(1)
              /\ lower_pc' = "done"
    /\ UNCHANGED NotLower
    /\ UNCHANGED <<lower_input, only_first_char, only_first_word,
                   preserve_whitespace, line_numbers, line_num, lower_stdout,
                   lower_readable>>

\* one turn of the loop of processStream: getline, convertLine, the line
\* and the delimiter are written (main.cpp 544-557)
LowerLine ==
    /\ prog = "lower" /\ lower_pc = "stream"
    /\ line_num <= Len(lower_input)
    /\ lower_stdout' =
           Append(lower_stdout, convertLine(lower_input[line_num], line_num))
    /\ line_num' = line_num + 1
    /\ UNCHANGED NotLower
    /\ UNCHANGED <<lower_pc, lower_input, lower_readable, only_first_char,
                   only_first_word, preserve_whitespace, line_numbers,
                   lower_stderr, lower_status>>

\* getline fails at the end of the file; return 0 (main.cpp 548, 657-658, 666)
LowerEnd ==
    /\ prog = "lower" /\ lower_pc = "stream"
    /\ line_num > Len(lower_input)
    /\ lower_status' = Exited(0)
    /\ lower_pc' = "done"
    /\ UNCHANGED NotLower
    /\ UNCHANGED <<lower_input, lower_readable, only_first_char,
                   only_first_word, preserve_whitespace, line_numbers,
                   line_num, lower_stdout, lower_stderr>>

LowerNext == LowerOpen \/ LowerLine \/ LowerEnd

(***************************************************************************)
(* ping: the checksum of the echo request                                  *)
(***************************************************************************)
NotChecksum == <<prog, teeVars, statVars, yesVars, noVars, pingVars, whoisVars, upVars, killVars, treeVars, confVars, sleepVars, lowerVars, rtVars>>

\* values of a byte tried
ByteValues == {0, 1, 128, 255}

\* *ptr for the uint16_t at byte p of data, on the little-endian build
WordAt(data, p) == data[p] + 256 * data[p + 1]

\* `while (len > 1) { sum += *ptr++; len -= 2; }` (part_001 642-645), from
\* byte p on.  A uint32_t holds the sum of the words of any packet.
RECURSIVE SumWords(_, _)
SumWords(data, p) ==
    IF Len(data) - p + 1 > 1
      THEN WordAt(data, p) + SumWords(data, p + 2)
      ELSE 0

\* `if (len == 1) sum += *(uint8_t*)ptr;` (part_001 647-649)
OddByte_Ignored(data) == 0
OddByte(data) == IF Len(data) % 2 = 1 THEN data[Len(data)] ELSE 0

\* `while (sum >> 16) sum = (sum & 0xFFFF) + (sum >> 16);` (part_001 651-653)
RECURSIVE Fold(_)
Fold(sum) ==
    IF sum \div 65536 # 0 THEN Fold((sum % 65536) + (sum \div 65536)) ELSE sum

\* PingUtility::calculateChecksum (part_001 638-656): `return ~sum` as a
\* uint16_t
calculateChecksum(data) ==
    65535 - (Fold(SumWords(data, 1) + OddByte(data)) % 65536)

\* the header with v stored in icmp_cksum, bytes 3 and 4
WithChecksum(data, v) ==
    [data EXCEPT ![3] = v % 256, ![4] = v \div 256]

\* pingHost declares icmp_hdr without initialising it and sets type, code,
\* id and seq (part_001 578-582): ICMP_ECHO, 0, and any bytes after them,
\* those of the members never set included
ChecksumInit ==
    /\ cksum_pc = "build"
    /\ icmp_hdr \in { <<8, 0>> \o rest :
                         rest \in UNION { [1 .. n -> ByteValues] :
                                           n \in 2 .. MaxPacketLen - 2 } }
    /\ icmp_sent = <<>>

ChecksumIdle ==
    /\ cksum_pc = "idle"
    /\ icmp_hdr = <<>>
    /\ icmp_sent = <<>>

\* icmp_cksum = 0, then icmp_cksum = calculateChecksum(&icmp_hdr, sizeof)
\* (part_001 583-586)
ChecksumCompute ==
    /\ prog = "checksum" /\ cksum_pc = "build"
    /\ icmp_hdr' = WithChecksum(icmp_hdr,
                                calculateChecksum(WithChecksum(icmp_hdr, 0)))
    /\ cksum_pc' = "send"
    /\ UNCHANGED NotChecksum
    /\ UNCHANGED icmp_sent

\* sendto (part_001 590-594)
ChecksumSend ==
    /\ prog = "checksum" /\ cksum_pc = "send"
    /\ icmp_sent' = icmp_hdr
    /\ cksum_pc' = "sent"
    /\ UNCHANGED NotChecksum
    /\ UNCHANGED icmp_hdr

ChecksumNext == ChecksumCompute \/ ChecksumSend

(***************************************************************************)
(* conf-convert: INI written and read back                                 *)
(***************************************************************************)
NotRoundTrip == <<prog, teeVars, statVars, yesVars, noVars, pingVars, whoisVars, upVars, killVars, treeVars, confVars, sleepVars, lowerVars, cksumVars>>

\* `pair.first.substr(0, dot_pos)`, "" for a key without a dot
\* (main.cpp 367-374)
SectionOf(key) ==
    IF FirstIndex(key, ".") = 0 THEN <<>>
    ELSE SubSeq(key, 1, FirstIndex(key, ".") - 1)

\* `pair.first.substr(dot_pos + 1)`, the key itself without a dot
\* (main.cpp 367-374)
SectionKey(key) ==
    IF FirstIndex(key, ".") = 0 THEN key
    ELSE SubSeq(key, FirstIndex(key, ".") + 1, Len(key))

\* sections[section] after the grouping loop (main.cpp 366-375): of the keys
\* that fall on one entry the last in the order of the map leaves its value
SectionMap(data, section) ==
    LET members == { k \in DOMAIN data : SectionOf(k) = section }
    IN  [sk \in { SectionKey(k) : k \in members } |->
            data[CHOOSE k \in members :
                    /\ SectionKey(k) = sk
                    /\ \A other \in members :
                          SectionKey(other) = sk
                              => (other = k \/ StringLess(other, k))]]

\* `output << pair.first << " = " << pair.second << "\n"` for the pairs of
\* one section, from the i-th on (main.cpp 386-388, 397-399)
RECURSIVE PairLines(_, _)
PairLines(map, i) ==
    IF i > Cardinality(DOMAIN map) THEN <<>>
    ELSE MapOrder(DOMAIN map)[i] \o <<" ", "=", " ">>
           \o map[MapOrder(DOMAIN map)[i]] \o <<"\n">>
           \o PairLines(map, i + 1)

\* the text of the sections with a name, from the i-th on (main.cpp 393-401)
RECURSIVE SectionsText(_, _, _)
SectionsText(data, names, i) ==
    IF i > Len(names) THEN <<>>
    ELSE <<"[">> \o names[i] \o <<"]", "\n">>
           \o PairLines(SectionMap(data, names[i]), 1) \o <<"\n">>
           \o SectionsText(data, names, i + 1)

\* ConfigConverter::generateINI without comments (main.cpp 361-404)
generateINI(data) ==
    LET sections == { SectionOf(k) : k \in DOMAIN data }
    IN  (IF <<>> \in sections
           THEN PairLines(SectionMap(data, <<>>), 1) \o <<"\n">>
           ELSE <<>>)
          \o SectionsText(data, MapOrder(sections \ {<<>>}), 1)

\* the lines std::getline reads from a text (main.cpp 188)
RECURSIVE GetLines(_)
GetLines(text) ==
    IF text = <<>> THEN <<>>
    ELSE IF FirstIndex(text, "\n") = 0 THEN <<text>>
    ELSE <<SubSeq(text, 1, FirstIndex(text, "\n") - 1)>>
           \o GetLines(SubSeq(text, FirstIndex(text, "\n") + 1, Len(text)))

\* the keys and the values the maps are made of
RtKeys == { <<"a">>, <<"b">>, <<"s", ".", "a">>, <<"s", ".", "b">>,
            <<"s", ".", "t", ".", "a">>, <<"a", ".">>, <<".", "a">>,
            <<"a", ".", " ", "b">>, <<"s", ".", ";", "a">>,
            <<"s", "]", ".", "a">> }

RtValues == { <<>>, <<"x">>, <<"=", " ", "y">>, <<"a", " ", "b">> }

RoundTripInit ==
    /\ rt_pc = "generate"
    /\ rt_data \in UNION { [keys -> RtValues] :
                             keys \in { s \in SUBSET RtKeys :
                                          Cardinality(s) <= MaxKeys } }
    /\ rt_text = <<>>
    /\ rt_back = EmptyMap

RoundTripIdle ==
    /\ rt_pc = "idle"
    /\ rt_data = EmptyMap
    /\ rt_text = <<>>
    /\ rt_back = EmptyMap

\* a run with -t ini writes generateINI() (main.cpp 361-404)
RoundTripGenerate ==
    /\ prog = "roundtrip" /\ rt_pc = "generate"
    /\ rt_text' = generateINI(rt_data)
    /\ rt_pc' = "parse"
    /\ UNCHANGED NotRoundTrip
    /\ UNCHANGED <<rt_data, rt_back>>

\* a run with -f ini reads that text with parseINI (main.cpp 179-222)
RoundTripParse ==
    /\ prog = "roundtrip" /\ rt_pc = "parse"
    /\ rt_back' = parseINI(GetLines(rt_text))
    /\ rt_pc' = "done"
    /\ UNCHANGED NotRoundTrip
    /\ UNCHANGED <<rt_data, rt_text>>

RoundTripNext == RoundTripGenerate \/ RoundTripParse

(***************************************************************************)
(* The specifications.                                                     *)
(***************************************************************************)
Progs == {"tee", "stat", "yes", "no", "ping", "whois", "uptime", "kill", "tree", "conf-convert", "sleep", "lower", "checksum", "roundtrip"}

\* the initial states in which one of the utilities in S is about to run
InitOf(S) ==
    /\ prog \in S
    /\ IF prog = "tee" THEN TeeInit ELSE TeeIdle
    /\ IF prog = "stat" THEN StatInit ELSE StatIdle
    /\ IF prog = "yes" THEN YesInit ELSE YesIdle
    /\ IF prog = "no" THEN NoInit ELSE NoIdle
    /\ IF prog = "ping" THEN PingInit ELSE PingIdle
    /\ IF prog = "whois" THEN WhoisInit ELSE WhoisIdle
    /\ IF prog = "uptime" THEN UptimeInit ELSE UptimeIdle
    /\ IF prog = "kill" THEN KillInit ELSE KillIdle
    /\ IF prog = "tree" THEN TreeInit ELSE TreeIdle
    /\ IF prog = "sleep" THEN SleepInit ELSE SleepIdle
    /\ IF prog = "lower" THEN LowerInit ELSE LowerIdle
    /\ IF prog = "checksum" THEN ChecksumInit ELSE ChecksumIdle
    /\ IF prog = "roundtrip" THEN RoundTripInit ELSE RoundTripIdle
    /\ IF prog = "conf-convert" THEN ConfInit ELSE ConfIdle

Init == InitOf(Progs)

Next == TeeNext \/ StatNext \/ YesNext \/ NoNext \/ PingNext
           \/ WhoisNext \/ UptimeNext \/ KillNext \/ TreeNext \/ ConfNext \/ SleepNext \/ LowerNext \/ ChecksumNext \/ RoundTripNext

Spec == Init /\ [][Next]_vars

\* tee alone
TeeSpec == InitOf({"tee"}) /\ [][TeeNext]_vars

\* ping alone; a running process keeps taking steps
PingSpec == InitOf({"ping"}) /\ [][PingNext]_vars /\ WF_vars(PingSteps)

\* whois alone
WhoisSpec == InitOf({"whois"}) /\ [][WhoisNext]_vars

\* whois and uptime, the two utilities with a quiet mode "errors only"
QuietNext == WhoisNext \/ UptimeNext

QuietSpec == InitOf({"whois", "uptime"}) /\ [][QuietNext]_vars

\* kill alone
KillSpec == InitOf({"kill"}) /\ [][KillNext]_vars

\* tree alone
TreeSpec == InitOf({"tree"}) /\ [][TreeNext]_vars

\* conf-convert alone
ConfSpec == InitOf({"conf-convert"}) /\ [][ConfNext]_vars

\* sleep alone
SleepSpec == InitOf({"sleep"}) /\ [][SleepNext]_vars

\* lower alone
LowerSpec == InitOf({"lower"}) /\ [][LowerNext]_vars

\* the echo request of ping alone
ChecksumSpec == InitOf({"checksum"}) /\ [][ChecksumNext]_vars

\* conf-convert to INI and back alone
RoundTripSpec == InitOf({"roundtrip"}) /\ [][RoundTripNext]_vars

\* the print loops of yes and no; a running process keeps taking steps
LoopNext == YesNext \/ NoNext
LoopSpec == InitOf({"yes", "no"}) /\ [][LoopNext]_vars
                /\ WF_vars(YesRun) /\ WF_vars(NoSteps)
(***************************************************************************)
(* Properties of tee.                                                      *)
(***************************************************************************)
\* FILE operands whose descriptor is valid at this point
ValidFiles == { i \in 1 .. Len(file_descriptors) : file_descriptors[i] # -1 }

\* C1: when no write fails, at every iteration boundary and at end of input
\* the bytes written to standard output and to each FILE that opened are
\* exactly the bytes read from standard input, in read order.
C1_TeeCopiesInput ==
    (/\ prog = "tee"
     /\ ~write_fail_seen
     /\ \/ tee_pc = "read"
        \/ tee_pc \in {"readerr", "close", "done"} /\ bytes_read = 0)
    => /\ tee_stdout = input_read
       /\ \A i \in Files : open_ok[i] => written[i] = input_read

\* two chunks were copied to standard output and to two FILEs, up to EOF
C1_Witness ==
    /\ prog = "tee" /\ tee_pc = "done" /\ bytes_read = 0
    /\ ~write_fail_seen
    /\ reads = 3 /\ Len(input_read) = 3
    /\ num_files = 2 /\ open_ok[1] /\ open_ok[2]
    /\ tee_stdout = input_read
    /\ written[1] = input_read /\ written[2] = input_read

\* C2: a FILE whose open or write failed is skipped from then on while
\* standard output and every valid FILE receive all chunks; a failed FILE
\* does not end the copy loop.
C2_ValidFilesKeepUp ==
    (prog = "tee" /\ tee_pc = "read")
    => /\ tee_stdout = input_read
       /\ \A i \in ValidFiles : written[i] = input_read

C2_InvalidIsSkipped ==
    \A i \in 1 .. Len(file_descriptors) :
        file_descriptors[i] = -1
        => /\ written'[i] = written[i]
           /\ disk'[i] = disk[i]
           /\ file_descriptors'[i] = -1

C2_FileFailureContinues ==
    (tee_pc = "wfile" /\ tee_pc' # "exited") => tee_pc' \in {"wfile", "read"}

C2_TeePartialFailure ==
    /\ []C2_ValidFilesKeepUp
    /\ [][C2_InvalidIsSkipped]_vars
    /\ [][C2_FileFailureContinues]_vars

\* the write of the first chunk to FILE 1 failed, and FILE 2 and standard
\* output went on to receive the second chunk as well
C2_Witness ==
    /\ prog = "tee" /\ tee_pc = "read" /\ reads = 2
    /\ num_files = 2 /\ open_ok[1] /\ open_ok[2]
    /\ file_descriptors[1] = -1 /\ file_descriptors[2] # -1
    /\ Len(input_read) = 4
    /\ Len(written[1]) = 1
    /\ written[2] = input_read /\ tee_stdout = input_read

\* C6 as stated: SIGINT stops tee at an iteration boundary only, so that at
\* exit every valid FILE holds all that standard output received.
C6_StopsAtIterationBoundary ==
    (prog = "tee" /\ tee_pc = "exited")
    => \A i \in ValidFiles : written[i] = tee_stdout

\* C6 as amended: SIGINT, unless ignored with -i, ends tee from inside the
\* handler with status 0, wherever main is, also between the write to
\* standard output and the writes to the FILEs; every valid FILE then holds
\* a prefix of what standard output received.
C6_TeeHandlerExits ==
    (prog = "tee" /\ tee_pc = "exited")
    => /\ ~ignore_interrupts
       /\ tee_status = Exited(0)
       /\ \A i \in ValidFiles :
            IsPrefix(written[i], tee_stdout)

\* the handler ended tee after a chunk reached standard output and FILE 1
\* but before it reached FILE 2
C6_Witness ==
    /\ prog = "tee" /\ tee_pc = "exited"
    /\ num_files = 2 /\ ValidFiles = {1, 2}
    /\ Len(tee_stdout) = 2
    /\ written[1] = tee_stdout
    /\ written[2] = <<>>
(***************************************************************************)
(* Properties of the exit status of tee and stat.                          *)
(***************************************************************************)
\* C3: tee and stat exit with a non-zero status whenever they reported an
\* error to standard error.
C3_ErrorsExitNonZero ==
    /\ (prog = "tee" /\ tee_pc = "done" /\ tee_stderr)
          => tee_status # Exited(0)
    /\ (prog = "stat" /\ stat_pc = "done" /\ stat_stderr)
          => stat_status # Exited(0)

(***************************************************************************)
(* Properties of the print loops of yes and no.                            *)
(***************************************************************************)
\* C4: the handler of SIGINT/SIGTERM only clears the run flag; after it the
\* print loop outputs at most one further line, ends, and the exit status
\* is 0.
C4_AtMostOneMoreLine == yes_after <= 1 /\ no_after <= 1

C4_HandlerOnlyClearsFlag ==
    /\ keep_running' # keep_running
          => /\ keep_running' = 0
             /\ UNCHANGED <<yes_pc, limit, yes_count, yes_lines, yes_status>>
    /\ running' # running
          => /\ running' = FALSE
             /\ UNCHANGED <<no_pc, count, no_i, no_lines, no_status>>

C4_CooperativeCancellation ==
    /\ []C4_AtMostOneMoreLine
    /\ [][C4_HandlerOnlyClearsFlag]_vars
    /\ (prog = "yes" /\ keep_running = 0 /\ yes_pc \in {"test", "print"})
          ~> (yes_pc = "done" /\ yes_status = Exited(0))
    /\ (prog = "no" /\ ~running /\ no_pc \in {"itest", "iprint", "ctest", "cprint"})
          ~> (no_pc = "done" /\ no_status = Exited(0))

\* yes was delivered between the test of the loop condition and the print,
\* printed the line of the iteration in progress, and returned 0
C4_Witness ==
    /\ prog = "yes" /\ yes_pc = "done"
    /\ keep_running = 0
    /\ yes_lines = 2 /\ yes_after = 1
    /\ yes_status = Exited(0)

\* the three parts of C7 for one utility: arg is the argument of the limit
\* option, printed the number of copies printed, signalled whether a signal
\* was handled, expected the number of copies a limit has to produce
C7_Parts(arg, pc, printed, status, signalled, expected) ==
    /\ (arg.kind = "number" /\ arg.value >= 0 /\ pc = "done" /\ ~signalled)
          => (printed = expected /\ status = Exited(0))
    /\ (arg.kind = "absent" /\ pc = "done" /\ printed > 0) => signalled
    /\ (arg.kind = "number" /\ arg.value < 0 /\ pc # "parse")
          => (pc = "done" /\ status = Exited(1) /\ printed = 0)

\* C7 as stated: with a limit N >= 0 and no signal exactly N copies are
\* printed and the exit status is 0; without a limit the loop does not end
\* by itself; a negative limit is rejected with status 1.
C7_ExactlyNCopies ==
    /\ prog = "yes" => C7_Parts(yes_arg, yes_pc, yes_lines, yes_status,
                                keep_running = 0, yes_arg.value)
    /\ prog = "no" => C7_Parts(no_arg, no_pc, no_lines, no_status,
                               ~running, no_arg.value)

\* C7 as amended: as stated, except that no -q prints nothing, whatever
\* the limit, and exits 0.
C7_ExactlyNCopiesUnlessQuiet ==
    /\ prog = "yes" => C7_Parts(yes_arg, yes_pc, yes_lines, yes_status,
                                keep_running = 0, yes_arg.value)
    /\ prog = "no" => C7_Parts(no_arg, no_pc, no_lines, no_status,
                               ~running,
                               IF no_quiet THEN 0 ELSE no_arg.value)

\* no -c 3 printed three lines, without a signal, and returned 0
C7_Witness ==
    /\ prog = "no" /\ no_pc = "done"
    /\ no_arg = NumArg(3) /\ ~no_quiet /\ running
    /\ no_lines = 3
    /\ no_status = Exited(0)
(***************************************************************************)
(* Properties of ping.                                                     *)
(***************************************************************************)
\* run was cancelled: it got to its end with the running flag cleared
PingCancelled == prog = "ping" /\ ping_pc = "done" /\ stats_called
                    /\ ~ping_running

C5_NoNewRequest == ~ping_running => requests' = requests

C5_CancelledReturns ==
    PingCancelled => /\ stats_printed = (show_statistics /\ ~ping_quiet)
                     /\ ping_status = Exited(0)

C8_AtMostTwoQueries == prog = "whois" => Len(queries) <= 2

\* C8: the first query goes to the selected server; a second one is made
\* only when referrals are followed, the target is not an IP address, and
\* the first response names a server that is neither empty nor the server
\* just queried, and it goes to that server.
C8_ReferralConditions ==
    (prog = "whois" /\ Len(queries) >= 1) =>
        /\ queries[1] = selectServer(target)
        /\ Len(queries) >= 2 =>
              /\ follow_referrals
              /\ ~isIPAddress(target)
              /\ queries[2] = extractReferralServer(first_response)
              /\ queries[2] # ""
              /\ queries[2] # queries[1]

C9_ReturnsCompleteResponse ==
    /\ (prog = "whois" /\ whois_pc \in {"referral", "output"}) =>
          (~recv_failed /\ response = Flatten(reply))
    /\ (prog = "whois" /\ whois_pc = "done" /\ recv_failed) =>
          (whois_status = Exited(1) /\ whois_stdout = <<>>)

(***************************************************************************)
(* quiet mode                                                              *)
(***************************************************************************)
\* the operation of uptime failed
UptimeFailed ==
    IF show_since THEN ~sysinfo_ok
                  ELSE ~uptime_readable \/ ~loadavg_readable

\* C10: quiet mode is "errors only": when whois or uptime fails under -q,
\* an error message is on standard error and the exit status is 1.
C10_QuietStillReportsErrors ==
    /\ (prog = "whois" /\ whois_quiet /\ whois_pc = "done"
           /\ whois_status # Exited(0)) =>
          (whois_errmsg /\ whois_status = Exited(1))
    /\ (prog = "uptime" /\ up_quiet /\ up_pc = "done" /\ UptimeFailed) =>
          (up_errmsg /\ up_status = Exited(1))

(***************************************************************************)
(* kill: owner filter, send loop                                           *)
(***************************************************************************)
\* C11: when -u USER is given, kill(2) is called only for processes whose
\* owner uid is USER's uid.
C11_OnlyOwnedAreSignalled ==
    (prog = "kill" /\ opt_u.set /\ KnownUser(opt_u.str)) =>
        \A k \in 1 .. Len(attempts) :
            proc[attempts[k]].owner = Passwd[opt_u.str]

\* C12: the kill(2) calls follow the list of matched processes, one call
\* per process in list order; every failed call is reported and every
\* matched process has had its call when the run is over.
C12_EveryMatchAttempted ==
    prog = "kill" =>
        /\ IsPrefix(attempts, processes)
        /\ Len(delivered) + Len(kill_errors) = Len(attempts)
        /\ (kill_pc \in {"done", "killed", "stopped"} /\ attempts # <<>>)
              => attempts = processes

(***************************************************************************)
(* tree: -d, -f, -L                                                        *)
(***************************************************************************)
\* an entry exists: every entry above it is a directory
Exists(path) ==
    \A k \in 1 .. Len(path) - 1 : tree_fs[SubSeq(path, 1, k)].dir

PrintedPaths == { tree_printed[k] : k \in 1 .. Len(tree_printed) }

\* C13: with -d every entry printed, at any depth, is a directory, no file
\* is counted, and the summary shows 0 files.
C13_OnlyDirectories ==
    (prog = "tree" /\ onlyDirs) =>
        /\ \A p \in PrintedPaths : tree_fs[p].dir
        /\ fileCount = 0
        /\ tree_summary # <<>> => tree_summary[2] = 0

\* a finished tree -d that printed a directory on the second level while
\* files exist on the first and on the second level
C13_Witness ==
    /\ prog = "tree" /\ onlyDirs /\ tree_pc = "done"
    /\ <<1, 1>> \in PrintedPaths
    /\ ~tree_fs[<<2>>].dir /\ ~tree_fs[<<1, 2>>].dir
    /\ tree_summary = <<2, 0>>

\* C14: tree -f lists every non-hidden file of the directory tree, at
\* every depth below the root, and no directory.
C14_EveryFileListed ==
    (prog = "tree" /\ onlyFiles /\ ~onlyDirs /\ maxDepth = -1
       /\ tree_pc = "done" /\ tree_summary # <<>>) =>
        PrintedPaths = { p \in TreePaths :
                           Exists(p) /\ ~tree_fs[p].dir /\ ~tree_fs[p].hidden }

\* C15: with -L LEVEL only entries at most LEVEL levels below the root are
\* printed and counted; the direct children of the root are on level 1.
C15_AtMostLevelLevels ==
    (prog = "tree" /\ tree_pc \in {"walk", "done"} /\ maxDepth >= 1) =>
        /\ \A p \in PrintedPaths : Len(p) <= maxDepth
        /\ dirCount + fileCount
             <= Cardinality({ p \in TreePaths : Len(p) <= maxDepth })

(***************************************************************************)
(* conf-convert: INI to JSON                                               *)
(***************************************************************************)
\* a line without the carriage return of a CRLF line ending
WithoutCR(line) ==
    IF line # <<>> /\ line[Len(line)] = "\r"
      THEN SubSeq(line, 1, Len(line) - 1) ELSE line

\* the keys an INI input contains: those of its key/value lines, whichever
\* line ending the input uses
IniKeys(lines) ==
    DOMAIN parseINI([i \in 1 .. Len(lines) |-> WithoutCR(lines[i])])

\* C16: for an INI input with exactly two distinct keys the JSON object
\* written has exactly two keys, each with a string value.
C16_TwoStringValuedKeys ==
    (prog = "conf-convert" /\ conf_pc = "done" /\ conf_status = Exited(0)
       /\ ~validate_only /\ Cardinality(IniKeys(conf_input)) = 2) =>
        /\ Len(conf_output) = 2
        /\ conf_output[1].key # conf_output[2].key
        /\ \A i \in 1 .. 2 : conf_output[i].type = "string"

(***************************************************************************)
(* sleep: the duration                                                     *)
(***************************************************************************)
\* the duration a token stands for, value x unit, read off the token as it
\* was written: whole microseconds as <<s, us>>, and whether a part of a
\* microsecond comes on top.  A bare number counts seconds.
TokenTenths(token) ==
    10 * DecimalValue(SubSeq(token.value, 1,
                             RunEnd(token.value, 1, Digits) - 1))
      + (IF RunEnd(token.value, 1, Digits) < Len(token.value)
           THEN DecimalValue(<<token.value[Len(token.value)]>>) ELSE 0)

TokenUnit(token) ==
    IF token.unit = <<>> THEN "SECOND" ELSE parseUnit(token.unit)

TokenRest(token) ==
    IF TokenUnit(token) = "NANOSECOND" THEN TokenTenths(token) % 10000 # 0
    ELSE IF TokenUnit(token) = "MICROSECOND" THEN TokenTenths(token) % 10 # 0
    ELSE FALSE

RECURSIVE TokensTime(_)
TokensTime(tokens) ==
    IF tokens = <<>> THEN <<0, 0>>
    ELSE TimeAdd(convertToMicroseconds(TokenTenths(Head(tokens)),
                                       TokenUnit(Head(tokens))),
                 TokensTime(Tail(tokens)))

\* C17: when sleep returns 0 the time it has blocked is at least the
\* duration of its argument, the sum over the tokens of value x unit, a
\* bare number counting seconds.
C17_BlocksForTheDuration ==
    (prog = "sleep" /\ sleep_pc = "done" /\ sleep_status = Exited(0)) =>
        /\ TimeLeq(TokensTime(sleep_tokens), blocked)
        /\ (\E k \in 1 .. Len(sleep_tokens) : TokenRest(sleep_tokens[k]))
              => blocked # TokensTime(sleep_tokens)

(***************************************************************************)
(* ping: the counted run, the interval                                     *)
(***************************************************************************)
\* a counted run that no signal has interrupted
PingCounted == prog = "ping" /\ ntargets > 0 /\ ~continuous /\ ping_running

\* that run has returned
PingCountedDone == PingCounted /\ ping_pc = "done"

\* COUNT, none when it is not positive
RoundsOf(n) == IF n > 0 THEN n ELSE 0

\* the k-th echo request goes to the target of its place in the round and
\* is reported with seq = k
C18_InRounds ==
    PingCounted =>
        \A k \in 1 .. Len(requests) :
            /\ requests[k][1] = ((k - 1) % ntargets) + 1
            /\ requests[k][3] = k

\* a request is started only from the loop over the targets, which is
\* reached again only when the request before it has returned
C18_OneAtATime ==
    requests' # requests =>
        /\ ping_pc = "inner" /\ ping_pc' = "inflight"
        /\ Len(requests') = Len(requests) + 1

C18_ExactlyCount ==
    PingCountedDone =>
        /\ Len(requests) = RoundsOf(ping_count) * ntargets
        /\ \A t \in 1 .. ntargets :
             Cardinality({ k \in 1 .. Len(requests) : requests[k][1] = t })
                = RoundsOf(ping_count)
        /\ stats_called
        /\ ping_status = Exited(0)

\* C18 as stated: a counted run without a signal sends COUNT requests to
\* each target, in rounds, one at a time, seq counting from 1, then prints
\* the statistics and returns 0.
C18_CountedPrintsStatistics ==
    PingCountedDone =>
        /\ Len(requests) = RoundsOf(ping_count) * ntargets
        /\ stats_printed
        /\ ping_status = Exited(0)

\* C18 as amended: the same, the statistics being printed unless -q or
\* --no-stats was given.
C18_CountedRounds ==
    /\ []C18_InRounds
    /\ [][C18_OneAtATime]_vars
    /\ []C18_ExactlyCount
    /\ [](PingCountedDone => stats_printed = (show_statistics /\ ~ping_quiet))

\* two rounds over two targets, the statistics printed, returned 0
C18_Witness ==
    /\ PingCountedDone
    /\ ntargets = 2 /\ ping_count = 2
    /\ Len(requests) = 4
    /\ requests[4] = <<2, 3, 4>>
    /\ stats_printed
    /\ ping_status = Exited(0)

\* C19: without --flood the interval has been waited since the echo request
\* before, whenever run is about to send the next one.
C19_IntervalBetweenRequests ==
    (/\ prog = "ping" /\ ~flood_mode
     /\ ping_pc = "inner" /\ ping_t <= ntargets /\ ping_running
     /\ requests # <<>>)
        => waited

(***************************************************************************)
(* tee: append and truncate                                                *)
(***************************************************************************)
\* what a FILE that tee has opened holds before the first write to it
C20_Kept == IF append_flag THEN PrevContent ELSE <<>>

\* the copy ran to the end of the input and no write failed
TeeCopiedAll ==
    prog = "tee" /\ tee_pc = "done" /\ bytes_read = 0 /\ ~write_fail_seen

\* C20: a FILE that tee has opened holds the bytes tee wrote to it, after
\* nothing without -a and after its previous content with -a; when the copy
\* has run to the end of the input these bytes are the input.  A FILE not
\* opened keeps its content.
C20_AppendOrTruncate ==
    prog = "tee" =>
        \A i \in Files :
            IF i <= Len(file_descriptors) /\ open_ok[i]
              THEN /\ disk[i] = C20_Kept \o written[i]
                   /\ TeeCopiedAll => disk[i] = C20_Kept \o input_read
              ELSE disk[i] = PrevContent

\* with -a two chunks were added after the previous content of two FILEs
C20_Witness ==
    /\ TeeCopiedAll
    /\ append_flag
    /\ num_files = 2 /\ open_ok[1] /\ open_ok[2]
    /\ Len(input_read) = 4
    /\ disk[1] = PrevContent \o input_read
    /\ disk[2] = PrevContent \o input_read

(***************************************************************************)
(* lower: the first word                                                   *)
(***************************************************************************)
\* a line with every character of its first word in lower case: the first
\* word is the first run of characters that are not white space
RECURSIVE FirstWordLowered(_, _, _)
FirstWordLowered(line, i, in_word) ==
    IF i > Len(line) THEN line
    ELSE IF line[i] \in LowerSpace
      THEN IF in_word THEN line
                      ELSE FirstWordLowered(line, i + 1, FALSE)
      ELSE FirstWordLowered([line EXCEPT ![i] = ToLowerChar(@)], i + 1, TRUE)

\* C21: with -w every line is written with the characters of its first word
\* in lower case and the rest as it was; without -c and -w every character
\* of the line is in lower case.
C21_FirstWordLowered ==
    (prog = "lower" /\ ~only_first_char /\ preserve_whitespace
       /\ ~line_numbers) =>
        \A k \in 1 .. Len(lower_stdout) :
            lower_stdout[k] =
                IF only_first_word
                  THEN FirstWordLowered(lower_input[k], 1, FALSE)
                  ELSE ToLower(lower_input[k])

(***************************************************************************)
(* no: upper case                                                          *)
(***************************************************************************)
\* C22: with -u every line no has printed is in upper case.
C22_EveryLineUpperCase ==
    (prog = "no" /\ uppercase /\ no_lines > 0) =>
        \A i \in 1 .. Len(formatted) : formatted[i] = toupper(formatted[i])

(***************************************************************************)
(* ping: the checksum                                                      *)
(***************************************************************************)
\* one's-complement addition of two 16-bit words, the carry added back in
OnesAdd(a, b) == IF a + b > 65535 THEN a + b - 65535 ELSE a + b

\* the one's-complement sum of the 16-bit words of data from byte p on, an
\* odd last byte counting as one more word
RECURSIVE OnesSum(_, _)
OnesSum(data, p) ==
    IF p > Len(data) THEN 0
    ELSE IF p = Len(data) THEN data[p]
    ELSE OnesAdd(WordAt(data, p), OnesSum(data, p + 2))

\* C23: the checksum stored in the echo request is the 16-bit complement of
\* the one's-complement sum of the packet with a zero checksum field, and
\* the one's-complement sum of the packet as sent is 0xFFFF.
C23_ChecksumVerifies ==
    (prog = "checksum" /\ cksum_pc = "sent") =>
        /\ WordAt(icmp_sent, 3) =
               65535 - OnesSum(WithChecksum(icmp_sent, 0), 1)
        /\ OnesSum(icmp_sent, 1) = 65535
        /\ calculateChecksum(icmp_sent) = 0

\* a packet of odd length whose sum carries out of 16 bits
C23_Witness ==
    /\ prog = "checksum" /\ cksum_pc = "sent"
    /\ Len(icmp_sent) = 7
    /\ icmp_sent[5] = 255 /\ icmp_sent[6] = 255 /\ icmp_sent[7] = 128
    /\ WordAt(icmp_sent, 3) = 65535 - 136

(***************************************************************************)
(* tee: a failed read, the descriptors                                     *)
(***************************************************************************)
\* C24: once read(2) has returned -1 tee is past its copy loop: it writes
\* nothing more and reads no more, it reports the error and closes the
\* FILEs.
C24_ReadErrorEndsCopy ==
    (prog = "tee" /\ bytes_read = ToSizeT(-1))
        => tee_pc \in {"readerr", "close", "done", "exited"}


\* C25: when main has returned, every FILE that was opened has been closed
\* exactly once and no other FILE has been closed.
C25_ClosedOnce ==
    (prog = "tee" /\ tee_pc = "done") =>
        \A i \in Files : close_count[i] = IF open_ok[i] THEN 1 ELSE 0

\* a descriptor marked invalid is not written to, not closed and stays
\* invalid
C25_InvalidUntouched ==
    \A i \in 1 .. Len(file_descriptors) :
        file_descriptors[i] = -1
        => /\ written'[i] = written[i]
           /\ close_count'[i] = close_count[i]
           /\ file_descriptors'[i] = -1

C25_DescriptorLifecycle ==
    /\ []C25_ClosedOnce
    /\ [][C25_InvalidUntouched]_vars

\* of two FILEs the first was closed when a write to it failed, the second
\* in the close loop at the end of main
C25_Witness ==
    /\ prog = "tee" /\ tee_pc = "done"
    /\ num_files = 2 /\ open_ok[1] /\ open_ok[2]
    /\ file_descriptors[1] = -1 /\ file_descriptors[2] # -1
    /\ Len(written[2]) > Len(written[1])
    /\ close_count[1] = 1 /\ close_count[2] = 1

(***************************************************************************)
(* ping: the counters                                                      *)
(***************************************************************************)
\* C26: when printPingResult has returned for every echo request made so
\* far, packets_sent is the number of these requests and the sum of
\* packets_received and packets_lost, response_times holds one sample per
\* packet received, and the icmp_seq of the requests is increasing.
C26_CountersAgree ==
    (prog = "ping" /\ ping_pc # "inflight") =>
        /\ packets_sent = Len(requests)
        /\ packets_sent = packets_received + packets_lost
        /\ Len(response_times) = packets_received
        /\ \A k \in 1 .. Len(requests) - 1 :
               requests[k][2] < requests[k + 1][2]

(***************************************************************************)
(* whois: a failed referral query                                          *)
(***************************************************************************)
\* the query to the referral server was started and has failed: the server
\* was not reached, the query was not sent, or no response came
ReferralQueryFailed ==
    /\ prog = "whois" /\ whois_pc = "done"
    /\ Len(queries) = 2
    /\ Len(sent_lines) < 2 \/ response = <<>>

\* C27: when the query to the referral server has failed whois has written
\* nothing to standard output and returns 1; what it writes to standard
\* output is the response of the last query, after every query has been
\* sent and answered.
C27_ReferralFailure ==
    /\ ReferralQueryFailed
          => (whois_stdout = <<>> /\ whois_status = Exited(1))
    /\ (prog = "whois" /\ whois_stdout # <<>>)
          => /\ Len(sent_lines) = Len(queries)
             /\ response # <<>>
             /\ whois_stdout = <<response>>
             /\ whois_status = Exited(0)

\* the first server answered with a referral, the referral server was
\* reached and sent nothing: no output, status 1
C27_Witness ==
    /\ ReferralQueryFailed
    /\ first_response # <<>>
    /\ Len(sent_lines) = 2 /\ response = <<>>
    /\ whois_stdout = <<>>
    /\ whois_status = Exited(1)

(***************************************************************************)
(* kill: the selection                                                     *)
(***************************************************************************)
\* the process pid meets every criterion given on the command line
MeetsCriteria(pid) ==
    /\ exact_name.set => Basename(proc[pid].argv0) = exact_name.str
    /\ contains_str.set => Contains(proc[pid].argv0, contains_str.str)
    /\ (opt_u.set /\ KnownUser(opt_u.str))
          => proc[pid].owner = Passwd[opt_u.str]

\* C28: kill(2) is called only for processes that meet every criterion
\* given, and for no process when no criterion is given.
C28_OnlySelectedAreSignalled ==
    prog = "kill" =>
        /\ \A k \in 1 .. Len(attempts) : MeetsCriteria(attempts[k])
        /\ (~exact_name.set /\ ~contains_str.set /\ ~opt_u.set)
              => attempts = <<>>

(***************************************************************************)
(* conf-convert: the INI round trip                                        *)
(***************************************************************************)
\* white space at neither end
NoOuterSpace(str) ==
    str = <<>> \/ (str[1] \notin RegexSpace /\ str[Len(str)] \notin RegexSpace)

\* the keys and the values the round trip is claimed for
RoundTripKey(key) ==
    /\ key # <<>>
    /\ \A i \in 1 .. Len(key) : key[i] \notin {"=", "\n"}
    /\ NoOuterSpace(key)
    /\ key[1] \notin {";", "#", "["}

RoundTripValue(value) ==
    /\ \A i \in 1 .. Len(value) : value[i] # "\n"
    /\ NoOuterSpace(value)

\* C29: a map of such keys and values, written by generateINI and read by
\* parseINI, comes back as the same map.
C29_IniRoundTrip ==
    (/\ prog = "roundtrip" /\ rt_pc = "done"
     /\ \A k \in DOMAIN rt_data :
            RoundTripKey(k) /\ RoundTripValue(rt_data[k]))
        => rt_back = rt_data

====
